---- MODULE Spec2Model ----
(***************************************************************************)
(* State-machine model of the fair (FIFO) locks of yamc:                   *)
(*   - the ticket locks of include/fair_mutex.hpp                          *)
(*       (fair::mutex, fair::timed_mutex, fair::recursive_mutex)           *)
(*   - the reader/writer engine of include/fair_shared_mutex.hpp           *)
(*       (fair::detail::shared_mutex_base<RwLockFairness>)                 *)
(* and of the monitors beside them:                                        *)
(*   - yamc::barrier (include/yamc_barrier.hpp)                            *)
(*   - yamc::counting_semaphore (include/yamc_semaphore.hpp)               *)
(*   - yamc::checked::mutex with validator::deadlock                       *)
(*       (include/checked_mutex.hpp, include/yamc_lock_validator.hpp)      *)
(* Every public operation runs under the internal std::mutex mtx_, so one  *)
(* action is the code executed between two points at which mtx_ is free:   *)
(* from the call to the first cv_.wait (or the return), and from a wake-up *)
(* of cv_.wait / cv_.wait_until to the next wait (or the return).          *)
(***************************************************************************)
EXTENDS Integers, Sequences, FiniteSets, TLC

\* ------------------------------------------------------------- bounds
\* number of threads using one lock object
NThreads == 3
\* acquire calls are accepted while next_ is below this value
MaxTicket == 4
\* the owner of a recursive lock acquires it again while ncount_ is below this
MaxDepth == 3
\* the participants of a barrier arrive while phase_ is below this value
MaxPhase == 3
\* a semaphore is constructed with a value up to this one
MaxDesired == 2
\* checked mutex objects
NMutexes == 2
\* a lock() that has to wait is called while the validator's list of the
\* mutex's waiters is shorter than this
MaxWaiters == 2
\* the width in bits of the ticket counters next_ and curr_ where their
\* overflow is modelled (std::size_t in the source)
TicketWidth == 2

Threads == 1..NThreads

VARIABLES
  \* ---- ticket lock (fair_mutex.hpp, detail::mutex_base)
  next_,      \* std::size_t next_
  curr_,      \* std::size_t curr_
  tpc,        \* per thread: "idle" | "lock" | "try_lockwait" | "owner"
  request,    \* per thread: the local variable request of lock()/do_try_lockwait()
  twoken,     \* threads blocked on cv_ that a notify_all() has woken
  tarrived,   \* history: the blocked threads, in the order they started to wait
  tret,       \* history: what the last step returned, if it ended a try_lock()
              \* or a try_lock_for/until(): "try_lock:true", ..., else "none"
  \* ---- reader/writer engine (fair_shared_mutex.hpp, detail::shared_mutex_base)
  phased,     \* RwLockFairness::phased (TRUE: PhaseFairness, FALSE: TaskFairness)
  node,       \* the node objects: queue_, locked_, the sentinel of impl_unlock
              \* and each thread's local request node; [status, next, prev]
  rpc,        \* per thread: "idle" | "lock" | "try_lockwait" | "lock_shared" |
              \* "try_lockwait_shared" | "exclusive" | "shared"
  rwoken,     \* threads blocked on cv_ that a notify_all() has woken
  arrived,    \* history: the blocked threads, in the order they were enqueued
  wturns,     \* history: per waiting shared request, the exclusive grants made
              \* since it was enqueued and before it was marked lockable
  rret,       \* history: what the last step returned, if it ended a try_lock()
              \* or a try_lock_shared(), else "none"
  promoted,   \* history: the promotion the last step ran, "unlock" (the pass
              \* of impl_unlock), "timeout" (the timeout path of
              \* impl_try_lockwait) or "none"
  \* ---- recursive ticket lock (fair_mutex.hpp, detail::recursive_mutex_base);
  \*      its next_, curr_ and the threads' positions are the ticket lock's
  ncount_,    \* std::size_t ncount_
  owner_,     \* std::thread::id owner_ (0: no thread)
  \* ---- yamc::barrier (yamc_barrier.hpp)
  init_count_, \* std::ptrdiff_t init_count_
  counter_,   \* std::ptrdiff_t counter_
  phase_,     \* unsigned phase_
  bpc,        \* per thread: [at, phase]; at is "idle" | "token" (holds the
              \* token of arrive()) | "wait" | "arrive_and_wait" |
              \* "arrive_and_drop" | "dropped"; phase is arrival.phase_ /
              \* arrival_phase
  bwoken,     \* threads blocked on cv_ that a notify_all() has woken
  bdrops,     \* history: per thread that called arrive_and_drop(), the phase
              \* in which it called
  \* ---- yamc::counting_semaphore (yamc_semaphore.hpp)
  sem,        \* [counter_, desired]: std::ptrdiff_t counter_ and, as history,
              \* the constructor argument
  spc,        \* per thread: "idle" | "acquire" | "try_acquirewait" | "acquired"
  swoken,     \* threads blocked on cv_ that a notify_all() has woken
  sret,       \* history: what the last step did: "acquire", "try_acquire:true",
              \* "try_acquire:false", "try_acquire_for:true",
              \* "try_acquire_for:false", "release" or "none"
  \* ---- yamc::checked::mutex (checked_mutex.hpp, checked::detail::mutex_base)
  \*      and its validator (yamc_lock_validator.hpp, validator::deadlock)
  mutexes,    \* per mutex object: [owner_] (0: no thread)
  mutexmap,   \* global_mutexmap: per mutex [owners, waiters], two sequences
  cpc,        \* per thread: 0 (running) or the mutex in whose lock() it is
              \* blocked on cv_
  cwoken,     \* threads blocked on a cv_ that a notify_all() has woken
  cerr        \* history: [what, tid, mkey]: the error the last step raised,
              \* "recursive lock", "recursive try_lock", "invalid unlock",
              \* "deadlock" or "none", with the calling thread and the mutex

tvars == <<next_, curr_, tpc, request, twoken, tarrived, tret>>

rvars == <<phased, node, rpc, rwoken, arrived, wturns, rret, promoted>>

mvars == <<ncount_, owner_>>

bvars == <<init_count_, counter_, phase_, bpc, bwoken, bdrops>>

svars == <<sem, spc, swoken, sret>>

cvars == <<mutexes, mutexmap, cpc, cwoken, cerr>>

\* the objects other than the ticket lock and the reader/writer engine
ovars == <<mvars, bvars, svars, cvars>>

vars == <<next_, curr_, tpc, request, twoken, tarrived, tret,
          phased, node, rpc, rwoken, arrived, wturns, rret, promoted,
          ncount_, owner_,
          init_count_, counter_, phase_, bpc, bwoken, bdrops,
          sem, spc, swoken, sret,
          mutexes, mutexmap, cpc, cwoken, cerr>>

\* ------------------------------------------------------------- helpers
\* s without its elements equal to x
Without(s, x) == SelectSeq(s, LAMBDA y : y # x)

\* the position of x in s (0 when absent)
IndexOf(s, x) ==
  IF \E i \in 1..Len(s) : s[i] = x
  THEN CHOOSE i \in 1..Len(s) : s[i] = x
  ELSE 0

\* ===================================================== ticket lock
TWaiting == {t \in Threads : tpc[t] \in {"lock", "try_lockwait"}}

\* cv_.notify_all(): every thread blocked on cv_ is woken
t_notify_all == TWaiting

\* the reader/writer engine is not used by the ticket lock specifications
\* the recursive lock is not used
RecursiveIdle ==
  /\ ncount_ = 0
  /\ owner_ = 0

\* no barrier is used
BarrierIdle ==
  /\ init_count_ = 0
  /\ counter_ = 0
  /\ phase_ = 0
  /\ bpc = << >>
  /\ bwoken = {}
  /\ bdrops = << >>

\* no semaphore is used
SemaphoreIdle ==
  /\ sem = << >>
  /\ spc = << >>
  /\ swoken = {}
  /\ sret = "none"

\* no checked mutex is used
CheckedIdle ==
  /\ mutexes = << >>
  /\ mutexmap = << >>
  /\ cpc = << >>
  /\ cwoken = {}
  /\ cerr = [what |-> "none", tid |-> 0, mkey |-> 0]

\* the reader/writer engine is not used by the other specifications
RwIdle ==
  /\ phased = FALSE
  /\ node = << >>
  /\ rpc = << >>
  /\ rwoken = {}
  /\ arrived = << >>
  /\ wturns = << >>
  /\ rret = "none"
  /\ promoted = "none"

\* the ticket lock after construction: next_ = 0, curr_ = 0
TicketInitState ==
  /\ next_ = 0
  /\ curr_ = 0
  /\ tpc = [t \in Threads |-> "idle"]
  /\ request = [t \in Threads |-> 0]
  /\ twoken = {}
  /\ tarrived = << >>
  /\ tret = "none"

TicketInit ==
  /\ TicketInitState
  /\ RwIdle
  /\ RecursiveIdle
  /\ BarrierIdle
  /\ SemaphoreIdle
  /\ CheckedIdle

\* the ticket a call to lock() takes:  request = next_++
lock_ticket_issue_keep(nx) == nx
lock_ticket_issue(nx) == nx + 1

\* mutex_base::lock(), from the call to the first cv_.wait(lk) or the return
mutex_lock_body(t) ==
  /\ tpc[t] = "idle"
  /\ next_ < MaxTicket
  /\ request' = [request EXCEPT ![t] = next_]
  /\ next_' = lock_ticket_issue(next_)
  /\ IF next_ # curr_
     THEN /\ tpc' = [tpc EXCEPT ![t] = "lock"]
          /\ tarrived' = Append(tarrived, t)
     ELSE /\ tpc' = [tpc EXCEPT ![t] = "owner"]
          /\ tarrived' = tarrived
  /\ tret' = "none"
  /\ UNCHANGED <<curr_, twoken>>

mutex_lock(t) ==
  /\ mutex_lock_body(t)
  /\ UNCHANGED <<rvars, ovars>>

\* the loop test of lock() after cv_.wait(lk) returned
mutex_lock_recheck(t) ==
  /\ tpc[t] = "lock"
  /\ twoken' = twoken \ {t}
  /\ IF request[t] # curr_
     THEN UNCHANGED <<tpc, request, tarrived>>
     ELSE /\ tpc' = [tpc EXCEPT ![t] = "owner"]
          /\ request' = [request EXCEPT ![t] = 0]
          /\ tarrived' = Without(tarrived, t)
  /\ tret' = "none"
  /\ UNCHANGED <<next_, curr_>>
  /\ UNCHANGED <<rvars, ovars>>

\* cv_.wait(lk) returns in lock() after a notify_all()
mutex_lock_wake(t) ==
  /\ t \in twoken
  /\ mutex_lock_recheck(t)

\* cv_.wait(lk) returns in lock() spuriously
mutex_lock_spurious(t) ==
  /\ t \notin twoken
  /\ mutex_lock_recheck(t)

\* the test of try_lock():  if (next_ != curr_) return false;
try_lock_free(nx, cu) == nx = cu

\* mutex_base::try_lock()
mutex_try_lock_body(t) ==
  /\ tpc[t] = "idle"
  /\ next_ < MaxTicket
  /\ \/ /\ ~try_lock_free(next_, curr_)
        /\ tret' = "try_lock:false"
        /\ UNCHANGED <<next_, curr_, tpc, request, twoken, tarrived>>
     \/ /\ try_lock_free(next_, curr_)
        /\ next_' = next_ + 1
        /\ tpc' = [tpc EXCEPT ![t] = "owner"]
        /\ tret' = "try_lock:true"
        /\ UNCHANGED <<curr_, request, twoken, tarrived>>

mutex_try_lock(t) ==
  /\ mutex_try_lock_body(t)
  /\ UNCHANGED <<rvars, ovars>>

\* the ticket unlock() serves next:  ++curr_
unlock_serve_newest(nx, cu) == nx - 1
unlock_serve(nx, cu) == cu + 1

\* mutex_base::unlock()
mutex_unlock_body(t) ==
  /\ tpc[t] = "owner"
  /\ curr_' = unlock_serve(next_, curr_)
  /\ tpc' = [tpc EXCEPT ![t] = "idle"]
  /\ twoken' = t_notify_all
  /\ tret' = "none"
  /\ UNCHANGED <<next_, request, tarrived>>

mutex_unlock(t) ==
  /\ mutex_unlock_body(t)
  /\ UNCHANGED <<rvars, ovars>>

\* the ticket a timed call waits for:  std::size_t request = next_;
timed_request(nx) == nx

\* next_ once a timed call has taken its request: the call reads next_ and
\* leaves it as it is, where lock() increments it
timed_enqueue_reserve(nx) == nx + 1
timed_enqueue_next(nx) == nx

\* timed_mutex::do_try_lockwait(tp) (try_lock_for / try_lock_until), from the
\* call to the first cv_.wait_until(lk, tp) or the return
timed_mutex_try_lockwait(t) ==
  /\ tpc[t] = "idle"
  /\ next_ < MaxTicket
  /\ IF timed_request(next_) # curr_
     THEN /\ request' = [request EXCEPT ![t] = timed_request(next_)]
          /\ tpc' = [tpc EXCEPT ![t] = "try_lockwait"]
          /\ tarrived' = Append(tarrived, t)
          /\ next_' = timed_enqueue_next(next_)
          /\ tret' = "none"
     ELSE /\ next_' = next_ + 1
          /\ tpc' = [tpc EXCEPT ![t] = "owner"]
          /\ tret' = "try_lock_for:true"
          /\ UNCHANGED <<request, tarrived>>
  /\ UNCHANGED <<curr_, twoken>>
  /\ UNCHANGED <<rvars, ovars>>

\* do_try_lockwait() after cv_.wait_until returned; timeout tells which
\* cv_status it returned
timed_mutex_recheck(t, timeout) ==
  /\ tpc[t] = "try_lockwait"
  /\ twoken' = twoken \ {t}
  /\ IF request[t] = curr_
     THEN \* loop left (or break after the re-check):  ++next_; return true;
          /\ next_' = next_ + 1
          /\ tpc' = [tpc EXCEPT ![t] = "owner"]
          /\ request' = [request EXCEPT ![t] = 0]
          /\ tarrived' = Without(tarrived, t)
          /\ tret' = "try_lock_for:true"
     ELSE IF timeout
     THEN \* return false;
          /\ tpc' = [tpc EXCEPT ![t] = "idle"]
          /\ request' = [request EXCEPT ![t] = 0]
          /\ tarrived' = Without(tarrived, t)
          /\ tret' = "try_lock_for:false"
          /\ UNCHANGED next_
     ELSE /\ tret' = "none"
          /\ UNCHANGED <<next_, tpc, request, tarrived>>
  /\ UNCHANGED curr_
  /\ UNCHANGED <<rvars, ovars>>

\* cv_.wait_until returns no_timeout after a notify_all()
timed_mutex_wake(t) ==
  /\ t \in twoken
  /\ timed_mutex_recheck(t, FALSE)

\* cv_.wait_until returns no_timeout spuriously
timed_mutex_spurious(t) ==
  /\ t \notin twoken
  /\ timed_mutex_recheck(t, FALSE)

\* cv_.wait_until returns timeout
timed_mutex_timeout(t) ==
  timed_mutex_recheck(t, TRUE)

\* fair::mutex: lock(), try_lock(), unlock()
MutexNext ==
  \E t \in Threads :
    \/ mutex_lock(t)
    \/ mutex_lock_wake(t)
    \/ mutex_lock_spurious(t)
    \/ mutex_try_lock(t)
    \/ mutex_unlock(t)

SpecMutex == TicketInit /\ [][MutexNext]_vars

\* fair::timed_mutex: fair::mutex plus try_lock_for() / try_lock_until()
TimedMutexNext ==
  \E t \in Threads :
    \/ mutex_lock(t)
    \/ mutex_lock_wake(t)
    \/ mutex_lock_spurious(t)
    \/ mutex_try_lock(t)
    \/ mutex_unlock(t)
    \/ timed_mutex_try_lockwait(t)
    \/ timed_mutex_wake(t)
    \/ timed_mutex_spurious(t)
    \/ timed_mutex_timeout(t)

SpecTimedMutex == TicketInit /\ [][TimedMutexNext]_vars

\* a thread notified through cv_ runs again, and an owner calls unlock()
TimedMutexFairness ==
  \A t \in Threads :
    /\ WF_vars(mutex_lock_wake(t))
    /\ WF_vars(timed_mutex_wake(t))
    /\ WF_vars(mutex_unlock(t))

SpecTimedMutexLive == TicketInit /\ [][TimedMutexNext]_vars /\ TimedMutexFairness

\* ===================================================== reader/writer engine
\* the addresses of the node objects; a thread's request node has the
\* thread's number as its address
queue_ == 0
locked_ == -1
sentinel == -2
nullptr == -3

\* the threads using the reader/writer lock
RThreads == DOMAIN rpc

Nodes == {queue_, locked_, sentinel} \cup RThreads

node_status_mask == 3
node_nthread_inc == 4

\* s & node_status_mask
StatusMask(s) == s % (node_status_mask + 1)

\* s | 2
Or2(s) == IF (s \div 2) % 2 = 1 THEN s ELSE s + 2

\* ~std::size_t(0), the status of the sentinel node of impl_unlock; its value
\* is never read by the locking code, bits 0 and 1 are set
sentinel_status == 65535

\* node request = {mode, 0, 0};
NewNode(mode) == [status |-> mode, next |-> nullptr, prev |-> nullptr]

\* a request node (or the sentinel) whose stack frame has been left
NoNode == [status |-> 0, next |-> nullptr, prev |-> nullptr]

wq_empty(q) == q[queue_].next = queue_

wq_push_front(q, p) ==
  LET next == q[queue_].next
  IN  [q EXCEPT ![queue_].next = p, ![next].prev = p,
                ![p].next = next, ![p].prev = queue_]

wq_push_back(q, p) ==
  LET back == q[queue_].prev
  IN  [q EXCEPT ![queue_].prev = p, ![back].next = p,
                ![p].next = queue_, ![p].prev = back]

wq_erase(q, p) ==
  [q EXCEPT ![q[p].next].prev = q[p].prev, ![q[p].prev].next = q[p].next]

wq_shared_lockable(q) ==
  wq_empty(q) \/ StatusMask(q[q[queue_].prev].status) = 3

wq_push_locknode_once(q, mode) ==
  IF q[queue_].next # locked_
  THEN [wq_push_front([q EXCEPT ![locked_].status = Or2(mode)], locked_)
          EXCEPT ![locked_].status = @ + node_nthread_inc]
  ELSE q

wq_push_locknode(q, mode) ==
  LET q1 == IF q[queue_].next # locked_
            THEN wq_push_front([q EXCEPT ![locked_].status = Or2(mode)], locked_)
            ELSE q
  IN  [q1 EXCEPT ![locked_].status = @ + node_nthread_inc]

wq_pop_locknode_keep(q) == q

wq_pop_locknode(q) ==
  [wq_erase(q, locked_) EXCEPT ![locked_] =
      [status |-> 0, next |-> nullptr, prev |-> nullptr]]

\* ---- what the properties read off the queue
\* the nodes linked from p on, following next, up to queue_ (at most k of them)
RECURSIVE Walk(_, _, _)
Walk(q, p, k) ==
  IF p = queue_ \/ p = nullptr \/ k = 0
  THEN << >>
  ELSE <<p>> \o Walk(q, q[p].next, k - 1)

\* the queue, front to back
QueueSeq(q) == Walk(q, q[queue_].next, Cardinality(Nodes))

\* the statuses of the nodes of the queue, front to back
StatusSeq(q) == [i \in 1..Len(QueueSeq(q)) |-> q[QueueSeq(q)[i]].status]

RWaiting ==
  {t \in RThreads :
     rpc[t] \in {"lock", "try_lockwait", "lock_shared", "try_lockwait_shared"}}

\* cv_.notify_all(): every thread blocked on cv_ is woken
r_notify_all == RWaiting

\* the ticket lock is not used by the reader/writer specifications
TicketIdle ==
  /\ next_ = 0
  /\ curr_ = 0
  /\ tpc = << >>
  /\ request = << >>
  /\ twoken = {}
  /\ tarrived = << >>
  /\ tret = "none"

\* shared_mutex_base(): queue_{0, &queue_, &queue_}; locked_ is left
\* uninitialized, so its members hold indeterminate values.  T is the set of
\* threads that use the lock, H the threads whose wturns history is recorded.
RwInitState(T, H) ==
  /\ rpc = [t \in T |-> "idle"]
  /\ phased \in BOOLEAN
  /\ \E st \in {0, 3}, nx \in {nullptr, queue_}, pv \in {nullptr, queue_} :
       node = [n \in Nodes |->
                 IF n = queue_ THEN [status |-> 0, next |-> queue_, prev |-> queue_]
                 ELSE IF n = locked_ THEN [status |-> st, next |-> nx, prev |-> pv]
                 ELSE NoNode]
  /\ rwoken = {}
  /\ arrived = << >>
  /\ wturns = [t \in H |-> 0]
  /\ rret = "none"
  /\ promoted = "none"

RwInitFor(T, H) ==
  /\ RwInitState(T, H)
  /\ TicketIdle
  /\ RecursiveIdle
  /\ BarrierIdle
  /\ SemaphoreIdle
  /\ CheckedIdle

RwInit == RwInitFor(Threads, {})

\* ---- history of the exclusive grants seen by the waiting shared requests
SharedWaiting(t) == rpc[t] \in {"lock_shared", "try_lockwait_shared"}

\* the request of t leaves the queue: its history starts afresh
ForgetTurns(t) ==
  IF t \in DOMAIN wturns THEN [wturns EXCEPT ![t] = 0] ELSE wturns

CountExclusiveGrant ==
  [u \in DOMAIN wturns |->
     IF SharedWaiting(u) /\ StatusMask(node[u].status) = 1
     THEN wturns[u] + 1
     ELSE wturns[u]]

\* ---- exclusive lock
\* the thread's request node leaves the queue and the thread folds into
\* locked_:  wq_erase(&request); wq_push_locknode(0);
enter_exclusive_linked(t) ==
  /\ node' = wq_push_locknode(node, 0)
  /\ rpc' = [rpc EXCEPT ![t] = "exclusive"]
  /\ arrived' = Without(arrived, t)
  /\ wturns' = CountExclusiveGrant

enter_exclusive(t) ==
  /\ node' = [wq_push_locknode(wq_erase(node, t), 0) EXCEPT ![t] = NoNode]
  /\ rpc' = [rpc EXCEPT ![t] = "exclusive"]
  /\ arrived' = Without(arrived, t)
  /\ wturns' = CountExclusiveGrant

\* the admission test of the exclusive acquire calls:  if (!wq_empty())
exclusive_must_wait_held(q) == q[queue_].next = locked_
exclusive_must_wait(q) == ~wq_empty(q)

\* impl_lock() / impl_try_lockwait() from the call to the first wait or the return
acquire_exclusive_body(t, waitpc) ==
  /\ rpc[t] = "idle"
  /\ IF exclusive_must_wait(node)
     THEN /\ node' = wq_push_back([node EXCEPT ![t] = NewNode(0)], t)
          /\ rpc' = [rpc EXCEPT ![t] = waitpc]
          /\ arrived' = Append(arrived, t)
          /\ wturns' = wturns
     ELSE /\ node' = wq_push_locknode(node, 0)
          /\ rpc' = [rpc EXCEPT ![t] = "exclusive"]
          /\ arrived' = arrived
          /\ wturns' = CountExclusiveGrant
  /\ promoted' = "none"
  /\ UNCHANGED <<phased, rwoken>>
  /\ rret' = "none"

acquire_exclusive(t, waitpc) ==
  /\ acquire_exclusive_body(t, waitpc)
  /\ UNCHANGED <<tvars, ovars>>

\* basic_shared_mutex::lock() -> impl_lock(lk)
impl_lock(t) == acquire_exclusive(t, "lock")

\* the negated loop test of the exclusive waits:  queue_.next == &request
exclusive_at_front_any(q, t) ==
  q[queue_].next # queue_ /\ StatusMask(q[q[queue_].next].status) = 0
exclusive_at_front(q, t) == q[queue_].next = t

\* the loop test of impl_lock() after cv_.wait(lk) returned
impl_lock_recheck(t) ==
  /\ rpc[t] = "lock"
  /\ rwoken' = rwoken \ {t}
  /\ IF ~exclusive_at_front(node, t)
     THEN UNCHANGED <<node, rpc, arrived, wturns>>
     ELSE enter_exclusive(t)
  /\ promoted' = "none"
  /\ UNCHANGED phased
  /\ rret' = "none"
  /\ UNCHANGED <<tvars, ovars>>

impl_lock_wake(t) == t \in rwoken /\ impl_lock_recheck(t)

impl_lock_spurious(t) == t \notin rwoken /\ impl_lock_recheck(t)

\* impl_try_lock()
impl_try_lock_body(t) ==
  /\ rpc[t] = "idle"
  /\ \/ /\ exclusive_must_wait(node)
        /\ rret' = "try_lock:false"
        /\ UNCHANGED <<phased, node, rpc, rwoken, arrived, wturns, promoted>>
     \/ /\ ~exclusive_must_wait(node)
        /\ node' = wq_push_locknode(node, 0)
        /\ rpc' = [rpc EXCEPT ![t] = "exclusive"]
        /\ wturns' = CountExclusiveGrant
        /\ rret' = "try_lock:true"
        /\ promoted' = "none"
        /\ UNCHANGED <<phased, rwoken, arrived>>

impl_try_lock(t) ==
  /\ impl_try_lock_body(t)
  /\ UNCHANGED <<tvars, ovars>>

\* ---- the promotion pass of impl_unlock()
\* PhaseFairness: the loop over the queue up to the sentinel
RECURSIVE phase_loop_mark_only(_, _)
phase_loop_mark_only(q, p) ==
  IF p = sentinel
  THEN q
  ELSE IF StatusMask(q[p].status) = 0
       THEN phase_loop_mark_only(q, q[p].next)
       ELSE phase_loop_mark_only([q EXCEPT ![p].status = Or2(@)], q[p].next)

RECURSIVE phase_loop(_, _)
phase_loop(q, p) ==
  IF p = sentinel
  THEN q
  ELSE LET next == q[p].next
       IN  IF StatusMask(q[p].status) = 0
           THEN phase_loop(wq_push_back(wq_erase(q, p), p), next)
           ELSE phase_loop([q EXCEPT ![p].status = Or2(@)], next)

\* PhaseFairness branch of impl_unlock()
phase_promote(q) ==
  IF StatusMask(q[q[queue_].next].status) = 1
  THEN LET q1 == wq_push_back(
                   [q EXCEPT ![sentinel] =
                      [status |-> sentinel_status, next |-> nullptr, prev |-> nullptr]],
                   sentinel)
           q2 == phase_loop(q1, q1[queue_].next)
       IN  [wq_erase(q2, sentinel) EXCEPT ![sentinel] = NoNode]
  ELSE q

\* TaskFairness branch of impl_unlock()
RECURSIVE task_promote_all(_, _)
task_promote_all(q, p) ==
  IF p = queue_
  THEN q
  ELSE IF StatusMask(q[p].status) = 1
       THEN task_promote_all([q EXCEPT ![p].status = Or2(@)], q[p].next)
       ELSE task_promote_all(q, q[p].next)

RECURSIVE task_promote_loop(_, _)
task_promote_loop(q, p) ==
  IF p # queue_ /\ StatusMask(q[p].status) = 1
  THEN task_promote_loop([q EXCEPT ![p].status = Or2(@)], q[p].next)
  ELSE q

task_promote(q) == task_promote_loop(q, q[queue_].next)

\* impl_unlock() after wq_pop_locknode():  if (!wq_empty()) { ... }
promote(q, ph) ==
  IF wq_empty(q) THEN q
  ELSE IF ph THEN phase_promote(q)
  ELSE task_promote(q)

\* impl_unlock()
impl_unlock_body(t) ==
  /\ rpc[t] = "exclusive"
  /\ node' = promote(wq_pop_locknode(node), phased)
  /\ rpc' = [rpc EXCEPT ![t] = "idle"]
  /\ rwoken' = r_notify_all
  /\ promoted' = IF wq_empty(wq_pop_locknode(node)) THEN "none" ELSE "unlock"
  /\ UNCHANGED <<phased, arrived, wturns>>
  /\ rret' = "none"

impl_unlock(t) ==
  /\ impl_unlock_body(t)
  /\ UNCHANGED <<tvars, ovars>>

\* ---- timed exclusive lock
\* basic_shared_timed_mutex::try_lock_for/until() -> impl_try_lockwait(lk, tp)
impl_try_lockwait(t) == acquire_exclusive(t, "try_lockwait")

\* the test of the timeout path:  (request.prev->status & node_status_mask) == 3
timeout_behind_lockable_never(q, t) == FALSE
timeout_behind_lockable_always(q, t) == TRUE
timeout_behind_lockable(q, t) == StatusMask(q[q[t].prev].status) = 3

\* the loop of the timeout path that marks the directly subsequent waiting
\* shared-lock nodes as lockable
RECURSIVE timeout_promote_skip(_, _)
timeout_promote_skip(q, p) ==
  IF p = queue_
  THEN q
  ELSE IF StatusMask(q[p].status) = 1
       THEN timeout_promote_skip([q EXCEPT ![p].status = Or2(@)], q[p].next)
       ELSE timeout_promote_skip(q, q[p].next)

RECURSIVE timeout_promote_loop(_, _)
timeout_promote_loop(q, p) ==
  IF p # queue_ /\ StatusMask(q[p].status) = 1
  THEN timeout_promote_loop([q EXCEPT ![p].status = Or2(@)], q[p].next)
  ELSE q

timeout_promote_none(q, t) == q
timeout_promote(q, t) == timeout_promote_loop(q, q[t].next)

\* impl_try_lockwait() after cv_.wait_until returned
impl_try_lockwait_recheck(t, timeout) ==
  /\ rpc[t] = "try_lockwait"
  /\ IF exclusive_at_front(node, t)
     THEN \* loop left (or break after the re-check)
          /\ enter_exclusive(t)
          /\ rwoken' = rwoken \ {t}
          /\ promoted' = "none"
     ELSE IF timeout
     THEN /\ IF timeout_behind_lockable(node, t)
             THEN /\ node' = [wq_erase(timeout_promote(node, t), t) EXCEPT ![t] = NoNode]
                  /\ rwoken' = r_notify_all \ {t}
                  /\ promoted' = "timeout"
             ELSE /\ node' = [wq_erase(node, t) EXCEPT ![t] = NoNode]
                  /\ rwoken' = rwoken \ {t}
                  /\ promoted' = "none"
          /\ rpc' = [rpc EXCEPT ![t] = "idle"]
          /\ arrived' = Without(arrived, t)
          /\ wturns' = wturns
     ELSE /\ rwoken' = rwoken \ {t}
          /\ promoted' = "none"
          /\ UNCHANGED <<node, rpc, arrived, wturns>>
  /\ UNCHANGED phased
  /\ rret' = "none"
  /\ UNCHANGED <<tvars, ovars>>

impl_try_lockwait_wake(t) == t \in rwoken /\ impl_try_lockwait_recheck(t, FALSE)

impl_try_lockwait_spurious(t) == t \notin rwoken /\ impl_try_lockwait_recheck(t, FALSE)

impl_try_lockwait_timeout(t) == impl_try_lockwait_recheck(t, TRUE)

\* ---- shared lock
\* the thread's request node leaves the queue and the thread folds into
\* locked_:  wq_erase(&request); wq_push_locknode(1);
enter_shared(t) ==
  /\ node' = [wq_push_locknode(wq_erase(node, t), 1) EXCEPT ![t] = NoNode]
  /\ rpc' = [rpc EXCEPT ![t] = "shared"]
  /\ arrived' = Without(arrived, t)
  /\ wturns' = ForgetTurns(t)

\* the admission test of the shared acquire calls:  if (!wq_shared_lockable())
shared_must_wait_tail_shared(q) ==
  ~(wq_empty(q) \/ q[q[queue_].prev].status % 2 = 1)
shared_must_wait_front(q) ==
  ~(wq_empty(q) \/ StatusMask(q[q[queue_].next].status) = 3)
shared_must_wait(q) == ~wq_shared_lockable(q)

\* impl_lock_shared() / impl_try_lockwait_shared() from the call to the first
\* wait or the return
acquire_shared(t, waitpc) ==
  /\ rpc[t] = "idle"
  /\ IF shared_must_wait(node)
     THEN /\ node' = wq_push_back([node EXCEPT ![t] = NewNode(1)], t)
          /\ rpc' = [rpc EXCEPT ![t] = waitpc]
          /\ arrived' = Append(arrived, t)
     ELSE /\ node' = wq_push_locknode(node, 1)
          /\ rpc' = [rpc EXCEPT ![t] = "shared"]
          /\ arrived' = arrived
  /\ promoted' = "none"
  /\ UNCHANGED <<phased, rwoken, wturns>>
  /\ rret' = "none"
  /\ UNCHANGED <<tvars, ovars>>

\* basic_shared_mutex::lock_shared() -> impl_lock_shared(lk)
impl_lock_shared(t) == acquire_shared(t, "lock_shared")

\* the loop test of impl_lock_shared() after cv_.wait(lk) returned
impl_lock_shared_recheck(t) ==
  /\ rpc[t] = "lock_shared"
  /\ rwoken' = rwoken \ {t}
  /\ IF node[t].status # 3
     THEN UNCHANGED <<node, rpc, arrived, wturns>>
     ELSE enter_shared(t)
  /\ promoted' = "none"
  /\ UNCHANGED phased
  /\ rret' = "none"
  /\ UNCHANGED <<tvars, ovars>>

impl_lock_shared_wake(t) == t \in rwoken /\ impl_lock_shared_recheck(t)

impl_lock_shared_spurious(t) == t \notin rwoken /\ impl_lock_shared_recheck(t)

\* impl_try_lock_shared()
impl_try_lock_shared(t) ==
  /\ rpc[t] = "idle"
  /\ \/ /\ shared_must_wait(node)
        /\ rret' = "try_lock_shared:false"
        /\ UNCHANGED <<phased, node, rpc, rwoken, arrived, wturns, promoted>>
     \/ /\ ~shared_must_wait(node)
        /\ node' = wq_push_locknode(node, 1)
        /\ rpc' = [rpc EXCEPT ![t] = "shared"]
        /\ rret' = "try_lock_shared:true"
        /\ promoted' = "none"
        /\ UNCHANGED <<phased, rwoken, arrived, wturns>>
  /\ UNCHANGED <<tvars, ovars>>

\* the test of impl_unlock_shared():  if (locked_.status < node_nthread_inc)
last_shared_any(st) == TRUE
last_shared(st) == st < node_nthread_inc

\* impl_unlock_shared()
impl_unlock_shared(t) ==
  /\ rpc[t] = "shared"
  /\ LET q1 == [node EXCEPT ![locked_].status = @ - node_nthread_inc]
     IN  IF last_shared(q1[locked_].status)
         THEN /\ node' = wq_pop_locknode(q1)
              /\ rwoken' = r_notify_all
         ELSE /\ node' = q1
              /\ rwoken' = rwoken
  /\ rpc' = [rpc EXCEPT ![t] = "idle"]
  /\ promoted' = "none"
  /\ UNCHANGED <<phased, arrived, wturns>>
  /\ rret' = "none"
  /\ UNCHANGED <<tvars, ovars>>

\* ---- timed shared lock
\* try_lock_shared_for/until() -> impl_try_lockwait_shared(lk, tp)
impl_try_lockwait_shared(t) == acquire_shared(t, "try_lockwait_shared")

\* impl_try_lockwait_shared() after cv_.wait_until returned
shared_recheck_never(q, t) == FALSE
\* the re-check of the timeout path:  if (request.status == 3) break;
shared_recheck(q, t) == q[t].status = 3

impl_try_lockwait_shared_recheck(t, timeout) ==
  /\ rpc[t] = "try_lockwait_shared"
  /\ rwoken' = rwoken \ {t}
  /\ IF (~timeout /\ node[t].status = 3) \/ (timeout /\ shared_recheck(node, t))
     THEN \* loop left, or break after the re-check
          enter_shared(t)
     ELSE IF timeout
     THEN /\ node' = [wq_erase(node, t) EXCEPT ![t] = NoNode]
          /\ rpc' = [rpc EXCEPT ![t] = "idle"]
          /\ arrived' = Without(arrived, t)
          /\ wturns' = ForgetTurns(t)
     ELSE UNCHANGED <<node, rpc, arrived, wturns>>
  /\ promoted' = "none"
  /\ UNCHANGED phased
  /\ rret' = "none"
  /\ UNCHANGED <<tvars, ovars>>

impl_try_lockwait_shared_wake(t) ==
  t \in rwoken /\ impl_try_lockwait_shared_recheck(t, FALSE)

impl_try_lockwait_shared_spurious(t) ==
  t \notin rwoken /\ impl_try_lockwait_shared_recheck(t, FALSE)

impl_try_lockwait_shared_timeout(t) == impl_try_lockwait_shared_recheck(t, TRUE)

\* ---- basic_shared_timed_mutex<RwLockFairness>, either policy
RwNext ==
  \E t \in Threads :
    \/ impl_lock(t)
    \/ impl_lock_wake(t)
    \/ impl_lock_spurious(t)
    \/ impl_try_lock(t)
    \/ impl_unlock(t)
    \/ impl_try_lockwait(t)
    \/ impl_try_lockwait_wake(t)
    \/ impl_try_lockwait_spurious(t)
    \/ impl_try_lockwait_timeout(t)
    \/ impl_lock_shared(t)
    \/ impl_lock_shared_wake(t)
    \/ impl_lock_shared_spurious(t)
    \/ impl_try_lock_shared(t)
    \/ impl_unlock_shared(t)
    \/ impl_try_lockwait_shared(t)
    \/ impl_try_lockwait_shared_wake(t)
    \/ impl_try_lockwait_shared_spurious(t)
    \/ impl_try_lockwait_shared_timeout(t)

SpecRW == RwInit /\ [][RwNext]_vars

\* a thread notified through cv_ runs again, and a holder releases
RwFairness ==
  \A t \in Threads :
    /\ WF_vars(impl_lock_wake(t))
    /\ WF_vars(impl_try_lockwait_wake(t))
    /\ WF_vars(impl_lock_shared_wake(t))
    /\ WF_vars(impl_try_lockwait_shared_wake(t))
    /\ WF_vars(impl_unlock(t))
    /\ WF_vars(impl_unlock_shared(t))

SpecRWLive == RwInit /\ [][RwNext]_vars /\ RwFairness

\* ---- the same lock used by threads that each make one kind of request:
\* the writers call lock(), try_lock_for/until() and unlock(), the readers
\* lock_shared() and unlock_shared()
NWriters == 2
NReaders == 2
Writers == 1..NWriters
Readers == (NWriters + 1)..(NWriters + NReaders)

RwRolesInit == RwInitFor(Writers \cup Readers, {})

RwRolesNext ==
  \/ \E t \in Writers :
       \/ impl_lock(t)
       \/ impl_lock_wake(t)
       \/ impl_unlock(t)
       \/ impl_try_lockwait(t)
       \/ impl_try_lockwait_wake(t)
       \/ impl_try_lockwait_timeout(t)
  \/ \E t \in Readers :
       \/ impl_lock_shared(t)
       \/ impl_lock_shared_wake(t)
       \/ impl_unlock_shared(t)

SpecRWRoles == RwRolesInit /\ [][RwRolesNext]_vars

\* one more reader, and the wturns history of the readers recorded
WideReaders == (NWriters + 1)..(NWriters + NReaders + 1)

RwWideInit == RwInitFor(Writers \cup WideReaders, WideReaders)

RwWideNext ==
  \/ \E t \in Writers :
       \/ impl_lock(t)
       \/ impl_lock_wake(t)
       \/ impl_unlock(t)
       \/ impl_try_lockwait(t)
       \/ impl_try_lockwait_wake(t)
       \/ impl_try_lockwait_timeout(t)
  \/ \E t \in WideReaders :
       \/ impl_lock_shared(t)
       \/ impl_lock_shared_wake(t)
       \/ impl_unlock_shared(t)

SpecRWWide == RwWideInit /\ [][RwWideNext]_vars

\* ===================================================== recursive ticket lock
\* fair::recursive_mutex (detail::recursive_mutex_base): the ticket lock with
\* an owner and a count of its nested acquisitions.  A thread at "owner" may
\* call lock() and try_lock() again.

\* if (owner_ == tid)
reentry(o, tid) == o = tid

\* next_ after the re-entry path of lock() / try_lock(), which returns before
\* request = next_++ is reached
reentry_issue(nx) == nx + 1
reentry_next(nx) == nx

\* if (--ncount_ == 0): the test of unlock() on the decremented count
unlock_any(n) == TRUE
unlock_last(n) == n = 0

\* recursive_mutex_base::lock(), from the call to the first cv_.wait(lk) or
\* the return
recursive_lock(t) ==
  /\ tpc[t] \in {"idle", "owner"}
  /\ IF reentry(owner_, t)
     THEN /\ ncount_ < MaxDepth
          /\ ncount_' = ncount_ + 1
          /\ next_' = reentry_next(next_)
          /\ UNCHANGED <<owner_, request, tpc, tarrived>>
     ELSE /\ tpc[t] = "idle"
          /\ next_ < MaxTicket
          /\ request' = [request EXCEPT ![t] = next_]
          /\ next_' = next_ + 1
          /\ IF next_ # curr_
             THEN /\ tpc' = [tpc EXCEPT ![t] = "lock"]
                  /\ tarrived' = Append(tarrived, t)
                  /\ UNCHANGED <<ncount_, owner_>>
             ELSE /\ tpc' = [tpc EXCEPT ![t] = "owner"]
                  /\ tarrived' = tarrived
                  /\ ncount_' = 1
                  /\ owner_' = t
  /\ tret' = "none"
  /\ UNCHANGED <<curr_, twoken>>
  /\ UNCHANGED <<rvars, bvars, svars, cvars>>

\* the loop test of lock() after cv_.wait(lk) returned
recursive_lock_recheck(t) ==
  /\ tpc[t] = "lock"
  /\ twoken' = twoken \ {t}
  /\ IF request[t] # curr_
     THEN UNCHANGED <<tpc, request, tarrived, ncount_, owner_>>
     ELSE /\ tpc' = [tpc EXCEPT ![t] = "owner"]
          /\ request' = [request EXCEPT ![t] = 0]
          /\ tarrived' = Without(tarrived, t)
          /\ ncount_' = 1
          /\ owner_' = t
  /\ tret' = "none"
  /\ UNCHANGED <<next_, curr_>>
  /\ UNCHANGED <<rvars, bvars, svars, cvars>>

\* cv_.wait(lk) returns in lock() after a notify_all()
recursive_lock_wake(t) ==
  /\ t \in twoken
  /\ recursive_lock_recheck(t)

\* cv_.wait(lk) returns in lock() spuriously
recursive_lock_spurious(t) ==
  /\ t \notin twoken
  /\ recursive_lock_recheck(t)

\* recursive_mutex_base::try_lock()
recursive_try_lock(t) ==
  /\ tpc[t] \in {"idle", "owner"}
  /\ IF reentry(owner_, t)
     THEN /\ ncount_ < MaxDepth
          /\ ncount_' = ncount_ + 1
          /\ next_' = reentry_next(next_)
          /\ tret' = "try_lock:true"
          /\ UNCHANGED <<owner_, tpc>>
     ELSE /\ tpc[t] = "idle"
          /\ next_ < MaxTicket
          /\ IF ~try_lock_free(next_, curr_)
             THEN /\ tret' = "try_lock:false"
                  /\ UNCHANGED <<next_, tpc, ncount_, owner_>>
             ELSE /\ next_' = next_ + 1
                  /\ tpc' = [tpc EXCEPT ![t] = "owner"]
                  /\ ncount_' = 1
                  /\ owner_' = t
                  /\ tret' = "try_lock:true"
  /\ UNCHANGED <<curr_, request, twoken, tarrived>>
  /\ UNCHANGED <<rvars, bvars, svars, cvars>>

\* recursive_mutex_base::unlock(), called by a thread that has acquired the
\* lock;  assert(0 < ncount_): at ncount_ = 0 the decrement would wrap
recursive_unlock(t) ==
  /\ tpc[t] = "owner"
  /\ 0 < ncount_
  /\ ncount_' = ncount_ - 1
  /\ IF unlock_last(ncount_ - 1)
     THEN /\ curr_' = curr_ + 1
          /\ owner_' = 0
          /\ tpc' = [tpc EXCEPT ![t] = "idle"]
          /\ twoken' = t_notify_all
     ELSE UNCHANGED <<curr_, owner_, tpc, twoken>>
  /\ tret' = "none"
  /\ UNCHANGED <<next_, request, tarrived>>
  /\ UNCHANGED <<rvars, bvars, svars, cvars>>

RecursiveNext ==
  \E t \in Threads :
    \/ recursive_lock(t)
    \/ recursive_lock_wake(t)
    \/ recursive_lock_spurious(t)
    \/ recursive_try_lock(t)
    \/ recursive_unlock(t)

\* recursive_mutex_base after construction is the ticket lock after
\* construction with ncount_ = 0 and no owner
SpecRecursive == TicketInit /\ [][RecursiveNext]_vars

\* ---- fair::recursive_timed_mutex: fair::recursive_mutex plus try_lock_for()
\* / try_lock_until()

\* recursive_timed_mutex::do_try_lockwait(tp), from the call to the first
\* cv_.wait_until(lk, tp) or the return
recursive_timed_try_lockwait(t) ==
  /\ tpc[t] \in {"idle", "owner"}
  /\ IF reentry(owner_, t)
     THEN /\ ncount_ < MaxDepth
          /\ ncount_' = ncount_ + 1
          /\ tret' = "try_lock_for:true"
          /\ UNCHANGED <<next_, owner_, tpc, request, tarrived>>
     ELSE /\ tpc[t] = "idle"
          /\ next_ < MaxTicket
          /\ IF timed_request(next_) # curr_
             THEN /\ request' = [request EXCEPT ![t] = timed_request(next_)]
                  /\ tpc' = [tpc EXCEPT ![t] = "try_lockwait"]
                  /\ tarrived' = Append(tarrived, t)
                  /\ next_' = timed_enqueue_next(next_)
                  /\ tret' = "none"
                  /\ UNCHANGED <<ncount_, owner_>>
             ELSE /\ next_' = next_ + 1
                  /\ tpc' = [tpc EXCEPT ![t] = "owner"]
                  /\ ncount_' = 1
                  /\ owner_' = t
                  /\ tret' = "try_lock_for:true"
                  /\ UNCHANGED <<request, tarrived>>
  /\ UNCHANGED <<curr_, twoken>>
  /\ UNCHANGED <<rvars, bvars, svars, cvars>>

\* do_try_lockwait() after cv_.wait_until returned.  The assert before
\* ncount_ = 1 is compiled out of a release build, and the assignments run
\* whatever ncount_ and owner_ were.
recursive_timed_recheck(t, timeout) ==
  /\ tpc[t] = "try_lockwait"
  /\ twoken' = twoken \ {t}
  /\ IF request[t] = curr_
     THEN /\ next_' = next_ + 1
          /\ ncount_' = 1
          /\ owner_' = t
          /\ tpc' = [tpc EXCEPT ![t] = "owner"]
          /\ request' = [request EXCEPT ![t] = 0]
          /\ tarrived' = Without(tarrived, t)
          /\ tret' = "try_lock_for:true"
     ELSE IF timeout
     THEN /\ tpc' = [tpc EXCEPT ![t] = "idle"]
          /\ request' = [request EXCEPT ![t] = 0]
          /\ tarrived' = Without(tarrived, t)
          /\ tret' = "try_lock_for:false"
          /\ UNCHANGED <<next_, ncount_, owner_>>
     ELSE /\ tret' = "none"
          /\ UNCHANGED <<next_, ncount_, owner_, tpc, request, tarrived>>
  /\ UNCHANGED curr_
  /\ UNCHANGED <<rvars, bvars, svars, cvars>>

recursive_timed_wake(t) ==
  /\ t \in twoken
  /\ recursive_timed_recheck(t, FALSE)

recursive_timed_spurious(t) ==
  /\ t \notin twoken
  /\ recursive_timed_recheck(t, FALSE)

recursive_timed_timeout(t) ==
  recursive_timed_recheck(t, TRUE)

RecursiveTimedNext ==
  \E t \in Threads :
    \/ recursive_lock(t)
    \/ recursive_lock_wake(t)
    \/ recursive_lock_spurious(t)
    \/ recursive_try_lock(t)
    \/ recursive_unlock(t)
    \/ recursive_timed_try_lockwait(t)
    \/ recursive_timed_wake(t)
    \/ recursive_timed_spurious(t)
    \/ recursive_timed_timeout(t)

SpecRecursiveTimed == TicketInit /\ [][RecursiveTimedNext]_vars

\* ===================================================== yamc::barrier
\* One barrier constructed with expected = NThreads and used by the threads as
\* its participants: a thread arrives once in a phase, and a thread that has
\* called arrive_and_drop() does not use the barrier again.

\* the threads blocked on cv_
BWaiting ==
  {t \in DOMAIN bpc : bpc[t].at \in {"wait", "arrive_and_wait", "arrive_and_drop"}}

\* barrier(expected)
BarrierInit ==
  /\ init_count_ = NThreads
  /\ counter_ = NThreads
  /\ phase_ = 0
  /\ bpc = [t \in Threads |-> [at |-> "idle", phase |-> 0]]
  /\ bwoken = {}
  /\ bdrops = << >>
  /\ TicketIdle
  /\ RwIdle
  /\ RecursiveIdle
  /\ SemaphoreIdle
  /\ CheckedIdle

\* counter_ -= 1; if (counter_ == 0) phase_completion_step(drop);
\* phase_completion_step: if (drop) --init_count_; counter_ = init_count_;
\* ++phase_; cv_.notify_all();  (the default completion function has no effect)
arrive_step(drop) ==
  IF counter_ - 1 = 0
  THEN /\ init_count_' = IF drop THEN init_count_ - 1 ELSE init_count_
       /\ counter_' = init_count_'
       /\ phase_' = phase_ + 1
       /\ bwoken' = BWaiting
  ELSE /\ counter_' = counter_ - 1
       /\ UNCHANGED <<init_count_, phase_, bwoken>>

\* while (phase_ <= arrival_phase)
barrier_must_wait(ph, arrival_phase) == ph <= arrival_phase

\* barrier::arrive(1)
barrier_arrive(t) ==
  /\ bpc[t].at = "idle"
  /\ phase_ < MaxPhase
  /\ 0 < counter_
  /\ arrive_step(FALSE)
  /\ bpc' = [bpc EXCEPT ![t] = [at |-> "token", phase |-> phase_]]
  /\ UNCHANGED bdrops
  /\ UNCHANGED <<tvars, rvars, mvars, svars, cvars>>

\* barrier::wait(token), from the call to the first cv_.wait(lk) or the return
barrier_wait(t) ==
  /\ bpc[t].at = "token"
  /\ bpc' = [bpc EXCEPT ![t].at =
               IF barrier_must_wait(phase_, bpc[t].phase) THEN "wait" ELSE "idle"]
  /\ UNCHANGED <<init_count_, counter_, phase_, bwoken, bdrops>>
  /\ UNCHANGED <<tvars, rvars, mvars, svars, cvars>>

\* barrier::arrive_and_wait(), from the call to the first cv_.wait(lk) or the
\* return
barrier_arrive_and_wait(t) ==
  /\ bpc[t].at = "idle"
  /\ phase_ < MaxPhase
  /\ 0 < counter_
  /\ arrive_step(FALSE)
  /\ bpc' = [bpc EXCEPT ![t] =
               [at |-> IF barrier_must_wait(phase_', phase_)
                       THEN "arrive_and_wait" ELSE "idle",
                phase |-> phase_]]
  /\ UNCHANGED bdrops
  /\ UNCHANGED <<tvars, rvars, mvars, svars, cvars>>

\* barrier::arrive_and_drop(), from the call to the first cv_.wait(lk) or the
\* return
barrier_arrive_and_drop(t) ==
  /\ bpc[t].at = "idle"
  /\ phase_ < MaxPhase
  /\ 0 < counter_
  /\ arrive_step(TRUE)
  /\ bpc' = [bpc EXCEPT ![t] =
               [at |-> IF barrier_must_wait(phase_', phase_)
                       THEN "arrive_and_drop" ELSE "dropped",
                phase |-> phase_]]
  /\ bdrops' = [u \in DOMAIN bdrops \cup {t} |->
                  IF u = t THEN phase_ ELSE bdrops[u]]
  /\ UNCHANGED <<tvars, rvars, mvars, svars, cvars>>

\* the loop test of wait() / arrive_and_wait() / arrive_and_drop() after
\* cv_.wait(lk) returned
barrier_recheck(t) ==
  /\ t \in BWaiting
  /\ bwoken' = bwoken \ {t}
  /\ bpc' = [bpc EXCEPT ![t].at =
               IF barrier_must_wait(phase_, bpc[t].phase) THEN @
               ELSE IF @ = "arrive_and_drop" THEN "dropped" ELSE "idle"]
  /\ UNCHANGED <<init_count_, counter_, phase_, bdrops>>
  /\ UNCHANGED <<tvars, rvars, mvars, svars, cvars>>

\* cv_.wait(lk) returns after a notify_all()
barrier_wake(t) ==
  /\ t \in bwoken
  /\ barrier_recheck(t)

\* cv_.wait(lk) returns spuriously
barrier_spurious(t) ==
  /\ t \notin bwoken
  /\ barrier_recheck(t)

BarrierNext ==
  \E t \in Threads :
    \/ barrier_arrive(t)
    \/ barrier_wait(t)
    \/ barrier_arrive_and_wait(t)
    \/ barrier_arrive_and_drop(t)
    \/ barrier_wake(t)
    \/ barrier_spurious(t)

SpecBarrier == BarrierInit /\ [][BarrierNext]_vars

\* ===================================================== yamc::counting_semaphore
\* One semaphore used by the threads: a thread acquires, then releases once.

SWaiting == {t \in DOMAIN spc : spc[t] \in {"acquire", "try_acquirewait"}}

SAcquired == {t \in DOMAIN spc : spc[t] = "acquired"}

\* counting_semaphore(desired)
SemaphoreInit ==
  /\ \E desired \in 0..MaxDesired : sem = [counter_ |-> desired, desired |-> desired]
  /\ spc = [t \in Threads |-> "idle"]
  /\ swoken = {}
  /\ sret = "none"
  /\ TicketIdle
  /\ RwIdle
  /\ RecursiveIdle
  /\ BarrierIdle
  /\ CheckedIdle

\* while (counter_ <= 0)  /  if (counter_ <= 0) return false;
sem_unavailable_below(c) == c < 0
sem_unavailable(c) == c <= 0

\* --counter_ and the return of a successful acquire call of t
sem_take(t, ret) ==
  /\ sem' = [sem EXCEPT !.counter_ = @ - 1]
  /\ spc' = [spc EXCEPT ![t] = "acquired"]
  /\ sret' = ret

\* counting_semaphore::acquire(), from the call to the first cv_.wait(lk) or
\* the return
sem_acquire(t) ==
  /\ spc[t] = "idle"
  /\ IF sem_unavailable(sem.counter_)
     THEN /\ spc' = [spc EXCEPT ![t] = "acquire"]
          /\ sret' = "none"
          /\ UNCHANGED sem
     ELSE sem_take(t, "acquire")
  /\ UNCHANGED swoken
  /\ UNCHANGED <<tvars, rvars, mvars, bvars, cvars>>

\* the loop test of acquire() after cv_.wait(lk) returned
sem_acquire_recheck(t) ==
  /\ spc[t] = "acquire"
  /\ swoken' = swoken \ {t}
  /\ IF sem_unavailable(sem.counter_)
     THEN /\ sret' = "none"
          /\ UNCHANGED <<sem, spc>>
     ELSE sem_take(t, "acquire")
  /\ UNCHANGED <<tvars, rvars, mvars, bvars, cvars>>

sem_acquire_wake(t) ==
  /\ t \in swoken
  /\ sem_acquire_recheck(t)

sem_acquire_spurious(t) ==
  /\ t \notin swoken
  /\ sem_acquire_recheck(t)

\* counting_semaphore::try_acquire()
sem_try_acquire(t) ==
  /\ spc[t] = "idle"
  /\ IF sem_unavailable(sem.counter_)
     THEN /\ sret' = "try_acquire:false"
          /\ UNCHANGED <<sem, spc>>
     ELSE sem_take(t, "try_acquire:true")
  /\ UNCHANGED swoken
  /\ UNCHANGED <<tvars, rvars, mvars, bvars, cvars>>

\* try_acquire_for/until() -> do_try_acquirewait(tp), from the call to the
\* first cv_.wait_until(lk, tp) or the return
sem_try_acquirewait(t) ==
  /\ spc[t] = "idle"
  /\ IF sem_unavailable(sem.counter_)
     THEN /\ spc' = [spc EXCEPT ![t] = "try_acquirewait"]
          /\ sret' = "none"
          /\ UNCHANGED sem
     ELSE sem_take(t, "try_acquire_for:true")
  /\ UNCHANGED swoken
  /\ UNCHANGED <<tvars, rvars, mvars, bvars, cvars>>

\* do_try_acquirewait after cv_.wait_until(lk, tp) returned, with or without
\* cv_status::timeout
sem_try_acquirewait_recheck(t, timeout) ==
  /\ spc[t] = "try_acquirewait"
  /\ swoken' = swoken \ {t}
  /\ IF ~sem_unavailable(sem.counter_)
     THEN sem_take(t, "try_acquire_for:true")
     ELSE IF timeout
          THEN /\ spc' = [spc EXCEPT ![t] = "idle"]
               /\ sret' = "try_acquire_for:false"
               /\ UNCHANGED sem
          ELSE /\ sret' = "none"
               /\ UNCHANGED <<sem, spc>>
  /\ UNCHANGED <<tvars, rvars, mvars, bvars, cvars>>

sem_try_acquirewait_wake(t) ==
  /\ t \in swoken
  /\ sem_try_acquirewait_recheck(t, FALSE)

sem_try_acquirewait_spurious(t) ==
  /\ t \notin swoken
  /\ sem_try_acquirewait_recheck(t, FALSE)

sem_try_acquirewait_timeout(t) ==
  sem_try_acquirewait_recheck(t, TRUE)

\* counting_semaphore::release(1), by a thread that has acquired
sem_release(t) ==
  /\ spc[t] = "acquired"
  /\ sem' = [sem EXCEPT !.counter_ = @ + 1]
  /\ swoken' = IF 0 < sem'.counter_ THEN SWaiting ELSE swoken
  /\ spc' = [spc EXCEPT ![t] = "idle"]
  /\ sret' = "release"
  /\ UNCHANGED <<tvars, rvars, mvars, bvars, cvars>>

SemaphoreNext ==
  \E t \in Threads :
    \/ sem_acquire(t)
    \/ sem_acquire_wake(t)
    \/ sem_acquire_spurious(t)
    \/ sem_try_acquire(t)
    \/ sem_try_acquirewait(t)
    \/ sem_try_acquirewait_wake(t)
    \/ sem_try_acquirewait_spurious(t)
    \/ sem_try_acquirewait_timeout(t)
    \/ sem_release(t)

SpecSemaphore == SemaphoreInit /\ [][SemaphoreNext]_vars

\* ===================================================== yamc::checked::mutex
\* NMutexes objects of checked::mutex used by the threads, and the global table
\* of validator::deadlock.  A thread that is not blocked calls lock(),
\* try_lock() or unlock() on any of the mutexes.

Mutexes == 1..NMutexes

InSeq(sq, x) == \E i \in 1..Len(sq) : sq[i] = x

NoError == [what |-> "none", tid |-> 0, mkey |-> 0]

Error(w, t, m) == [what |-> w, tid |-> t, mkey |-> m]

\* the objects after construction; validator::ctor(mkey) for each
CheckedInit ==
  /\ mutexes = [m \in Mutexes |-> [owner_ |-> 0]]
  /\ mutexmap = [m \in Mutexes |-> [owners |-> << >>, waiters |-> << >>]]
  /\ cpc = [t \in Threads |-> 0]
  /\ cwoken = {}
  /\ cerr = NoError
  /\ TicketIdle
  /\ RwIdle
  /\ RecursiveIdle
  /\ BarrierIdle
  /\ SemaphoreIdle

\* validator::deadlock::find_closepath(mutexmap, end_mkey, tid).  stack holds
\* the threads of the calls in progress: a call for one of them repeats without
\* end ("overflow").  The mutexes are visited in the order of the unordered
\* map, so a close path is found ("found") if any order finds one.
RECURSIVE find_closepath(_, _, _, _)
find_closepath(map, end_mkey, tid, stack) ==
  IF tid \in stack
  THEN "overflow"
  ELSE LET owned == {e \in DOMAIN map : InSeq(map[e].owners, tid)}
           sub == (IF end_mkey \in owned THEN {"found"} ELSE {}) \cup
                  UNION {{find_closepath(map, end_mkey, map[e].waiters[i],
                                         stack \cup {tid}) :
                            i \in 1..Len(map[e].waiters)} :
                         e \in owned \ {end_mkey}}
       IN  IF "found" \in sub THEN "found"
           ELSE IF "overflow" \in sub THEN "overflow"
           ELSE "none"

\* validator::locked / unlocked / dequeue, and the push_back of enqueue
locked(map, mkey, tid) == [map EXCEPT ![mkey].owners = Append(@, tid)]

unlocked(map, mkey, tid) == [map EXCEPT ![mkey].owners = Without(@, tid)]

dequeue(map, mkey, tid) == [map EXCEPT ![mkey].waiters = Without(@, tid)]

enqueue_push(map, mkey, tid) == [map EXCEPT ![mkey].waiters = Append(@, tid)]

\* owner_ = tid; validator::locked(this, tid, false);
checked_acquire(map, t, m) ==
  /\ mutexes' = [mutexes EXCEPT ![m].owner_ = t]
  /\ mutexmap' = locked(map, m, t)
  /\ cpc' = [cpc EXCEPT ![t] = 0]
  /\ cerr' = NoError

\* one round of the loop of lock() with the mutex owned: enqueue, then throw
\* or wait.  A find_closepath that does not return is no step.
checked_enqueue(map, t, m) ==
  LET pushed == enqueue_push(map, m, t)
      path == find_closepath(pushed, m, t, {})
  IN  /\ path # "overflow"
      /\ mutexmap' = pushed
      /\ IF path = "found"
         THEN /\ cerr' = Error("deadlock", t, m)
              /\ cpc' = [cpc EXCEPT ![t] = 0]
         ELSE /\ cerr' = NoError
              /\ cpc' = [cpc EXCEPT ![t] = m]
      /\ UNCHANGED mutexes

\* if (owner_ == tid) of lock() and try_lock()
recursive_call(o, tid) == o = tid

\* checked::detail::mutex_base::lock(), from the call to the first
\* cv_.wait(lk), the return or the throw
checked_lock(t, m) ==
  /\ cpc[t] = 0
  /\ IF recursive_call(mutexes[m].owner_, t)
     THEN /\ cerr' = Error("recursive lock", t, m)
          /\ UNCHANGED <<mutexes, mutexmap, cpc>>
     ELSE IF mutexes[m].owner_ # 0
          THEN /\ Len(mutexmap[m].waiters) < MaxWaiters
               /\ checked_enqueue(mutexmap, t, m)
          ELSE checked_acquire(mutexmap, t, m)
  /\ UNCHANGED cwoken
  /\ UNCHANGED <<tvars, rvars, mvars, bvars, svars>>

\* lock() after cv_.wait(lk) returned: dequeue, then the loop test
checked_lock_recheck(t) ==
  /\ cpc[t] # 0
  /\ cwoken' = cwoken \ {t}
  /\ LET m == cpc[t]
         map == dequeue(mutexmap, m, t)
     IN  IF mutexes[m].owner_ # 0
         THEN checked_enqueue(map, t, m)
         ELSE checked_acquire(map, t, m)
  /\ UNCHANGED <<tvars, rvars, mvars, bvars, svars>>

checked_lock_wake(t) ==
  /\ t \in cwoken
  /\ checked_lock_recheck(t)

checked_lock_spurious(t) ==
  /\ t \notin cwoken
  /\ checked_lock_recheck(t)

\* checked::detail::mutex_base::try_lock()
checked_try_lock(t, m) ==
  /\ cpc[t] = 0
  /\ IF recursive_call(mutexes[m].owner_, t)
     THEN /\ cerr' = Error("recursive try_lock", t, m)
          /\ UNCHANGED <<mutexes, mutexmap, cpc>>
     ELSE IF mutexes[m].owner_ # 0
          THEN /\ cerr' = Error("none", t, m)
               /\ UNCHANGED <<mutexes, mutexmap, cpc>>
          ELSE checked_acquire(mutexmap, t, m)
  /\ UNCHANGED cwoken
  /\ UNCHANGED <<tvars, rvars, mvars, bvars, svars>>

\* if (owner_ != tid) of unlock()
not_owner_never(o, tid) == FALSE
not_owner(o, tid) == o # tid

\* checked::detail::mutex_base::unlock()
checked_unlock(t, m) ==
  /\ cpc[t] = 0
  /\ IF not_owner(mutexes[m].owner_, t)
     THEN /\ cerr' = Error("invalid unlock", t, m)
          /\ UNCHANGED <<mutexes, mutexmap, cpc, cwoken>>
     ELSE /\ mutexes' = [mutexes EXCEPT ![m].owner_ = 0]
          /\ mutexmap' = unlocked(mutexmap, m, t)
          /\ cwoken' = cwoken \cup {u \in Threads : cpc[u] = m}
          /\ cerr' = NoError
          /\ UNCHANGED cpc
  /\ UNCHANGED <<tvars, rvars, mvars, bvars, svars>>

CheckedNext ==
  \/ \E t \in Threads, m \in Mutexes :
       \/ checked_lock(t, m)
       \/ checked_try_lock(t, m)
       \/ checked_unlock(t, m)
  \/ \E t \in Threads :
       \/ checked_lock_wake(t)
       \/ checked_lock_spurious(t)

SpecChecked == CheckedInit /\ [][CheckedNext]_vars

\* ---- a program that uses one lock, either a fair::timed_mutex or a
\* reader/writer lock: the threads of the lock in use are the domain of its
\* program-counter function, the other lock has no threads
LocksInit == TicketInit \/ RwInit

LocksNext ==
  \/ \E t \in DOMAIN tpc :
       \/ mutex_lock(t)
       \/ mutex_lock_wake(t)
       \/ mutex_lock_spurious(t)
       \/ mutex_try_lock(t)
       \/ mutex_unlock(t)
       \/ timed_mutex_try_lockwait(t)
       \/ timed_mutex_wake(t)
       \/ timed_mutex_spurious(t)
       \/ timed_mutex_timeout(t)
  \/ \E t \in RThreads :
       \/ impl_lock(t)
       \/ impl_lock_wake(t)
       \/ impl_lock_spurious(t)
       \/ impl_try_lock(t)
       \/ impl_unlock(t)
       \/ impl_try_lockwait(t)
       \/ impl_try_lockwait_wake(t)
       \/ impl_try_lockwait_spurious(t)
       \/ impl_try_lockwait_timeout(t)
       \/ impl_lock_shared(t)
       \/ impl_lock_shared_wake(t)
       \/ impl_lock_shared_spurious(t)
       \/ impl_try_lock_shared(t)
       \/ impl_unlock_shared(t)
       \/ impl_try_lockwait_shared(t)
       \/ impl_try_lockwait_shared_wake(t)
       \/ impl_try_lockwait_shared_spurious(t)
       \/ impl_try_lockwait_shared_timeout(t)

SpecLocks == LocksInit /\ [][LocksNext]_vars

\* ---- fair::mutex with next_ and curr_ of TicketWidth bits: std::size_t
\* arithmetic is modulo 2^w, ++ of the largest value gives 0
TicketModulus == 2 ^ TicketWidth

\* a counter that stops at its largest value instead
wrap_saturate(x) == IF x >= TicketModulus THEN TicketModulus - 1 ELSE x
wrap(x) == x % TicketModulus

\* mutex_base::lock(), from the call to the first cv_.wait(lk) or the return
mutex_lock_wrap(t) ==
  /\ tpc[t] = "idle"
  /\ request' = [request EXCEPT ![t] = next_]
  /\ next_' = wrap(lock_ticket_issue(next_))
  /\ IF next_ # curr_
     THEN /\ tpc' = [tpc EXCEPT ![t] = "lock"]
          /\ tarrived' = Append(tarrived, t)
     ELSE /\ tpc' = [tpc EXCEPT ![t] = "owner"]
          /\ tarrived' = tarrived
  /\ tret' = "none"
  /\ UNCHANGED <<curr_, twoken>>
  /\ UNCHANGED <<rvars, ovars>>

\* cv_.wait(lk) returned in lock(); the loop test is the one of mutex_lock
mutex_lock_wrap_wake(t) == mutex_lock_wake(t)

mutex_lock_wrap_spurious(t) == mutex_lock_spurious(t)

\* mutex_base::try_lock()
mutex_try_lock_wrap(t) ==
  /\ tpc[t] = "idle"
  /\ \/ /\ ~try_lock_free(next_, curr_)
        /\ tret' = "try_lock:false"
        /\ UNCHANGED <<next_, curr_, tpc, request, twoken, tarrived>>
     \/ /\ try_lock_free(next_, curr_)
        /\ next_' = wrap(next_ + 1)
        /\ tpc' = [tpc EXCEPT ![t] = "owner"]
        /\ tret' = "try_lock:true"
        /\ UNCHANGED <<curr_, request, twoken, tarrived>>
  /\ UNCHANGED <<rvars, ovars>>

\* mutex_base::unlock()
mutex_unlock_wrap(t) ==
  /\ tpc[t] = "owner"
  /\ curr_' = wrap(unlock_serve(next_, curr_))
  /\ tpc' = [tpc EXCEPT ![t] = "idle"]
  /\ twoken' = t_notify_all
  /\ tret' = "none"
  /\ UNCHANGED <<next_, request, tarrived>>
  /\ UNCHANGED <<rvars, ovars>>

MutexWrapNext ==
  \E t \in Threads :
    \/ mutex_lock_wrap(t)
    \/ mutex_lock_wrap_wake(t)
    \/ mutex_lock_wrap_spurious(t)
    \/ mutex_try_lock_wrap(t)
    \/ mutex_unlock_wrap(t)

SpecMutexWrap == TicketInit /\ [][MutexWrapNext]_vars

\* ---- a fair::mutex and a reader/writer lock (either policy) side by side:
\* every call of a thread is made on both locks in one step, once the thread's
\* previous call has returned on both; the waits of the two locks return
\* independently of each other
PairInit ==
  /\ TicketInitState
  /\ RwInitState(Threads, {})
  /\ RecursiveIdle
  /\ BarrierIdle
  /\ SemaphoreIdle
  /\ CheckedIdle

\* lock() on both
pair_lock(t) ==
  /\ mutex_lock_body(t)
  /\ acquire_exclusive_body(t, "lock")
  /\ UNCHANGED ovars

\* try_lock() on both
pair_try_lock(t) ==
  /\ mutex_try_lock_body(t)
  /\ impl_try_lock_body(t)
  /\ UNCHANGED ovars

\* unlock() on both
pair_unlock(t) ==
  /\ mutex_unlock_body(t)
  /\ impl_unlock_body(t)
  /\ UNCHANGED ovars

PairNext ==
  \E t \in Threads :
    \/ pair_lock(t)
    \/ pair_try_lock(t)
    \/ pair_unlock(t)
    \/ mutex_lock_wake(t)
    \/ mutex_lock_spurious(t)
    \/ impl_lock_wake(t)
    \/ impl_lock_spurious(t)

SpecPair == PairInit /\ [][PairNext]_vars

\* ===================================================== properties
Holders == {t \in RThreads : rpc[t] \in {"exclusive", "shared"}}

ExclusiveWaiting(t) == rpc[t] \in {"lock", "try_lockwait"}

TOwners == {t \in DOMAIN tpc : tpc[t] = "owner"}

\* C1: reader/writer engine, either policy: in no reachable state does a
\* thread hold the lock exclusively while another thread holds it, exclusively
\* or shared.
C1_MutualExclusion ==
  \A t \in RThreads :
    rpc[t] = "exclusive" => Holders = {t}

\* an exclusive holder with a timed exclusive waiter and a shared waiter queued
C1_Witness ==
  \E t, u, v \in RThreads :
    /\ rpc[t] = "exclusive"
    /\ rpc[u] = "try_lockwait"
    /\ rpc[v] = "lock_shared"

\* C2: fair::timed_mutex: at most one thread owns the lock at a time, whatever
\* the interleaving of lock(), try_lock(), try_lock_for/until() and unlock().
C2_TimedMutualExclusion == Cardinality(TOwners) <= 1

\* C3: fair::mutex: at most one thread owns the lock at a time; a waiter
\* whose ticket equals curr_ exists only while nobody owns the lock, it is the
\* only such waiter, and a blocked thread that proceeds holds that ticket.
C3_OneOwner ==
  /\ Cardinality(TOwners) <= 1
  /\ \A t \in TWaiting :
       request[t] = curr_ =>
         /\ TOwners = {}
         /\ \A u \in TWaiting \ {t} : request[u] # curr_

C3_OnlyServedProceeds ==
  \A t \in Threads :
    (tpc[t] = "lock" /\ tpc'[t] = "owner") => request[t] = curr_

C3_TicketMutex == []C3_OneOwner /\ [][C3_OnlyServedProceeds]_vars

\* after an unlock() one of two waiters holds the served ticket, nobody owns
C3_Witness ==
  /\ curr_ >= 1
  /\ TOwners = {}
  /\ \E t, u \in TWaiting :
       request[t] = curr_ /\ request[u] = curr_ + 1

\* C4: ticket lock FIFO: whenever a thread is granted the lock, no thread
\* that is still blocked in lock() started to wait before it (a thread granted
\* without waiting finds no blocked thread at all).
C4_GrantInOrder ==
  \A t \in Threads :
    (tpc[t] # "owner" /\ tpc'[t] = "owner") =>
      \A u \in Threads \ {t} :
        tpc[u] = "lock" =>
          /\ tpc[t] = "lock"
          /\ IndexOf(tarrived, t) < IndexOf(tarrived, u)

C4_TicketFifo == [][C4_GrantInOrder]_vars

\* the first of two waiters has been granted after an unlock() that also woke
\* the second, which still waits
C4_Witness ==
  \E t \in TOwners, u \in TWaiting :
    /\ tpc[u] = "lock"
    /\ u \in twoken
    /\ request[u] = curr_ + 1

\* C5: reader/writer engine, either policy: whenever a thread is granted the
\* lock exclusively, no exclusive request that is still waiting was enqueued
\* before it (a thread granted without waiting finds no waiting request).
C5_GrantInOrder ==
  \A t \in RThreads :
    (rpc[t] # "exclusive" /\ rpc'[t] = "exclusive") =>
      \A u \in RThreads \ {t} :
        ExclusiveWaiting(u) =>
          /\ ExclusiveWaiting(t)
          /\ IndexOf(arrived, t) < IndexOf(arrived, u)

SharedNode(q, n) == q[n].status % 2 = 1

\* the length of the run of shared nodes that seq starts with
RECURSIVE SharedRun(_, _)
SharedRun(q, seq) ==
  IF seq = << >> \/ ~SharedNode(q, Head(seq))
  THEN 0
  ELSE 1 + SharedRun(q, Tail(seq))

\* the waiting requests when an exclusive holder calls unlock(): the queue
\* behind locked_
Behind(q, n) ==
  LET s == QueueSeq(q)
  IN  SubSeq(s, IndexOf(s, n) + 1, Len(s))

ExclusiveUnlock(t) == rpc[t] = "exclusive" /\ rpc'[t] = "idle"

\* a timed exclusive request gives up
ExclusiveTimeout(t) == rpc[t] = "try_lockwait" /\ rpc'[t] = "idle"

\* the predecessor of t's request in the queue is locked_ held shared, or a
\* shared request marked lockable
BehindSharedPhase(t) ==
  LET s == QueueSeq(node)
      pred == IF IndexOf(s, t) > 1 THEN s[IndexOf(s, t) - 1] ELSE queue_
  IN  \/ pred = locked_ /\ \E h \in RThreads : rpc[h] = "shared"
      \/ pred \in RThreads /\ SharedWaiting(pred) /\ node[pred].status = 3

\* q without the lockable nodes it starts with: the waiting requests alone
RECURSIVE StripLockable(_)
StripLockable(q) ==
  IF ~wq_empty(q) /\ StatusMask(q[q[queue_].next].status) = 3
  THEN StripLockable(wq_erase(q, q[queue_].next))
  ELSE q

\* C6: TaskFairness: an unlock() by the exclusive holder leaves the order of
\* the waiting requests as it is, marks the shared requests of the run the
\* queue starts with lockable (status 3), and leaves every request at or
\* behind the first exclusive request unmarked.
C6_TaskStep ==
  \A t \in RThreads :
    (~phased /\ ExclusiveUnlock(t)) =>
      LET rest == Behind(node, locked_)
          k == SharedRun(node, rest)
      IN  /\ QueueSeq(node') = rest
          /\ \A i \in 1..Len(rest) :
               IF i <= k
               THEN node'[rest[i]].status = 3
               ELSE /\ node'[rest[i]].status = node[rest[i]].status
                    /\ node'[rest[i]].status \in {0, 1}

C6_TaskPromotion == [][C6_TaskStep]_vars

\* after unlock(): a marked shared request, a waiting exclusive request and
\* behind it an unmarked shared request
C6_Witness ==
  /\ ~phased
  /\ promoted = "unlock"
  /\ StatusSeq(node) = <<3, 0, 1>>

\* C7: PhaseFairness: an unlock() by the exclusive holder that finds a shared
\* request at the head moves all shared requests ahead of all exclusive ones,
\* keeping the order within each kind, and marks every shared request
\* lockable; and no thread is granted the lock exclusively while a marked
\* shared request is queued or a thread holds the lock shared.
C7_PhaseStep ==
  \A t \in RThreads :
    /\ (phased /\ ExclusiveUnlock(t)) =>
         LET rest == Behind(node, locked_)
         IN  (rest # << >> /\ node[Head(rest)].status = 1) =>
               /\ QueueSeq(node') =
                    SelectSeq(rest, LAMBDA n : SharedNode(node, n))
                      \o SelectSeq(rest, LAMBDA n : ~SharedNode(node, n))
               /\ \A i \in 1..Len(rest) :
                    node'[rest[i]].status =
                      IF SharedNode(node, rest[i]) THEN 3 ELSE 0
    /\ (phased /\ rpc[t] # "exclusive" /\ rpc'[t] = "exclusive") =>
         \A u \in RThreads \ {t} :
           /\ rpc[u] # "shared"
           /\ ~(SharedWaiting(u) /\ node[u].status = 3)

C8_TimeoutStep ==
  \A t \in RThreads :
    (ExclusiveTimeout(t) /\ BehindSharedPhase(t)) =>
      LET behind == Behind(node, t)
      IN  \A i \in 1..SharedRun(node, behind) :
            /\ node'[behind[i]].status = 3
            /\ behind[i] \in rwoken'
            /\ IndexOf(QueueSeq(node'), behind[i]) = IndexOf(QueueSeq(node), t) + i - 1

C8_TimeoutPromotion == [][C8_TimeoutStep]_vars

\* after such a timeout: a shared request marked and woken by it directly
\* behind locked_, which is held shared
C8_Witness ==
  /\ promoted = "timeout"
  /\ \E u, h \in RThreads :
       /\ SharedWaiting(u)
       /\ node[u].status = 3
       /\ u \in rwoken
       /\ rpc[h] = "shared"
       /\ node[locked_].next = u

\* C9: either policy: when a timed exclusive request whose predecessor is
\* locked_ held shared or a marked shared request times out, the waiting
\* requests are left in the order and with the marks that the promotion pass
\* of unlock() gives on the waiting requests that remain once the timed-out
\* request is removed.
C9_TimeoutStep ==
  \A t \in RThreads :
    (ExclusiveTimeout(t) /\ BehindSharedPhase(t)) =>
      LET s == QueueSeq(node)
          admitted == SubSeq(s, 1, IndexOf(s, t) - 1)
          pass == promote(StripLockable(wq_erase(node, t)), phased)
      IN  /\ QueueSeq(node') = admitted \o QueueSeq(pass)
          /\ \A i \in 1..Len(QueueSeq(pass)) :
               node'[QueueSeq(pass)[i]].status = pass[QueueSeq(pass)[i]].status

C9_TimeoutAsUnlockPass == [][C9_TimeoutStep]_vars

\* C10: PhaseFairness: a shared request that waited and has been marked
\* lockable saw at most one exclusive grant between its enqueue and its mark.
C10_OneWriterTurn ==
  phased =>
    \A u \in DOMAIN wturns :
      (SharedWaiting(u) /\ node[u].status = 3) => wturns[u] <= 1

\* C11: reader/writer engine, either policy, under RwFairness: a thread
\* blocked in lock() is eventually granted the lock exclusively, a thread
\* blocked in lock_shared() is eventually granted it shared, and a thread
\* blocked in a timed call is eventually granted the lock unless its wait
\* times out.
C11_NoStarvation ==
  \A t \in Threads :
    /\ (t \in RThreads /\ rpc[t] = "lock") ~> (rpc[t] = "exclusive")
    /\ (t \in RThreads /\ rpc[t] = "lock_shared") ~> (rpc[t] = "shared")
    /\ (t \in RThreads /\ rpc[t] = "try_lockwait") ~> (rpc[t] \in {"exclusive", "idle"})
    /\ (t \in RThreads /\ rpc[t] = "try_lockwait_shared") ~> (rpc[t] \in {"shared", "idle"})

\* a shared request blocked behind a timed exclusive request, none of them
\* notified, while a third thread holds the lock shared
C11_Witness ==
  \E h, t, u \in RThreads :
    /\ rpc[h] = "shared"
    /\ rpc[t] = "try_lockwait"
    /\ rpc[u] = "lock_shared"
    /\ node[t].next = u
    /\ rwoken = {}

\* ---- fair::timed_mutex
\* the threads blocked in lock(): each holds a ticket that next_ has counted
LockWaiters == {t \in Threads : tpc[t] = "lock"}

\* C12: fair::timed_mutex: whenever a thread blocked in lock() or in
\* try_lock_for/until() is granted the lock, no thread that is still blocked
\* started to wait before it.
C12_TimedGrantInOrder ==
  \A t \in Threads :
    (t \in TWaiting /\ tpc'[t] = "owner") =>
      \A u \in TWaiting \ {t} :
        IndexOf(tarrived, t) < IndexOf(tarrived, u)

C12_TimedFifo == [][C12_TimedGrantInOrder]_vars

\* C13: fair::timed_mutex under TimedMutexFairness: a thread blocked in
\* try_lock_for/until() eventually owns the lock unless its wait times out.
C13_TimedWaiterGranted ==
  \A t \in Threads :
    (tpc[t] = "try_lockwait") ~> (tpc[t] \in {"owner", "idle"})

\* C17: fair::timed_mutex: a step in which try_lock() returns true starts in
\* a state where no thread owns the lock and no thread is blocked in lock()
\* or try_lock_for/until().
C17_TryLockStep ==
  (tret' = "try_lock:true") => (TOwners = {} /\ TWaiting = {})

C17_TryLockNoJump == [][C17_TryLockStep]_vars

C19_RequestInRange ==
  \A t \in TWaiting : curr_ <= request[t] /\ request[t] <= next_

\* C20: fair::timed_mutex: every step of a try_lock_for/until() call that
\* does not end in success leaves next_ and curr_ as they are, and once the
\* call has returned false, next_ = curr_ whenever nobody owns the lock or is
\* blocked in lock(), so that the next lock() is granted at once.
C20_TimeoutStep ==
  \A t \in Threads :
    /\ ((timed_mutex_try_lockwait(t) \/ timed_mutex_recheck(t, TRUE)
          \/ timed_mutex_recheck(t, FALSE)) /\ tpc'[t] # "owner") =>
         (next_' = next_ /\ curr_' = curr_)
    /\ (tret' = "try_lock_for:false" /\ TOwners = {} /\ LockWaiters = {}) =>
         next_' = curr_'

C20_TimeoutNoTrace == [][C20_TimeoutStep]_vars

\* a timed call has just returned false after tickets were served while it
\* waited; the lock is free
C20_Witness ==
  /\ tret = "try_lock_for:false"
  /\ curr_ >= 1
  /\ TOwners = {}
  /\ TWaiting = {}

\* ---- the calls of the reader/writer engine that do not block
ExclusiveRequests == {t \in RThreads : rpc[t] \in {"exclusive", "lock", "try_lockwait"}}

SharedHolders == {t \in RThreads : rpc[t] = "shared"}

\* C14: reader/writer engine: a step in which try_lock() returns true starts
\* with the queue empty (no thread holds the lock or waits) and ends with
\* locked_ alone in the queue, exclusive with count 1; a step in which it
\* returns false starts with the queue not empty and leaves every node as it is.
C14_TryLockStep ==
  /\ (rret' = "try_lock:true") =>
       /\ QueueSeq(node) = << >>
       /\ Holders = {} /\ RWaiting = {}
       /\ QueueSeq(node') = <<locked_>>
       /\ node'[locked_].status = 2 + node_nthread_inc
  /\ (rret' = "try_lock:false") =>
       /\ QueueSeq(node) # << >>
       /\ node' = node

C14_TryLock == [][C14_TryLockStep]_vars

\* try_lock() has just returned true
C14_Witness ==
  /\ rret = "try_lock:true"
  /\ \E t \in RThreads : rpc[t] = "exclusive"
  /\ StatusSeq(node) = <<2 + node_nthread_inc>>

\* C15: reader/writer engine, either policy: a step in which
\* try_lock_shared() returns true starts in a state where no thread holds the
\* lock exclusively or waits for it exclusively.
C15_TryLockSharedStep ==
  (rret' = "try_lock_shared:true") => ExclusiveRequests = {}

C15_TryLockShared == [][C15_TryLockSharedStep]_vars

\* try_lock_shared() has just returned false with the lock held shared and an
\* exclusive request waiting at the tail
C15_Witness ==
  /\ rret = "try_lock_shared:false"
  /\ SharedHolders # {}
  /\ node[queue_].prev \in RThreads
  /\ rpc[node[queue_].prev] = "lock"

\* C16: reader/writer engine: whenever K > 0 threads hold the lock shared,
\* locked_ counts K threads; and a lock_shared() or try_lock_shared() called
\* while no thread holds or waits for the lock exclusively acquires at once.
C16_HolderCount ==
  SharedHolders # {} =>
    node[locked_].status = 3 + node_nthread_inc * Cardinality(SharedHolders)

C16_SharedStep ==
  \A t \in RThreads :
    ((impl_lock_shared(t) \/ impl_try_lock_shared(t)) /\ ExclusiveRequests = {}) =>
      rpc'[t] = "shared"

C16_ReaderParallelism == []C16_HolderCount /\ [][C16_SharedStep]_vars

\* a third thread has joined two shared holders through try_lock_shared()
C16_Witness ==
  /\ rret = "try_lock_shared:true"
  /\ Cardinality(SharedHolders) = 3
  /\ node[locked_].status = 3 + node_nthread_inc * 3

\* ---- the nodes and their links
\* the nodes linked into the queue, with the head queue_
Linked(q) == {queue_} \cup {QueueSeq(q)[i] : i \in 1..Len(QueueSeq(q))}

\* a circular doubly linked list: n.next.prev == n and n.prev.next == n
WellFormed(q) ==
  \A n \in Linked(q) :
    /\ q[n].next \in Nodes /\ q[n].prev \in Nodes
    /\ q[q[n].next].prev = n
    /\ q[q[n].prev].next = n

\* the number of threads counted in locked_.status
HolderCount(q) == q[locked_].status \div node_nthread_inc

\* a timed call of t returns false
TimedOut(t) ==
  /\ rpc[t] \in {"try_lockwait", "try_lockwait_shared"}
  /\ rpc'[t] = "idle"

\* C21: reader/writer engine, either policy: a step in which a timed call
\* returns false unlinks the caller's node, leaves a well-formed circular list,
\* the holders and their count as they were and the other requests in their
\* order; the lockable nodes still form a prefix of the queue, and a shared
\* request is left unmarked only behind an exclusive holder or request, which
\* it would have had to wait for without the timed-out request as well.
C21_TimeoutStep ==
  \A t \in RThreads :
    TimedOut(t) =>
      LET s == QueueSeq(node') IN
      /\ node'[t] = NoNode
      /\ \A n \in Linked(node') : node'[n].next # t /\ node'[n].prev # t
      /\ WellFormed(node')
      /\ HolderCount(node') = HolderCount(node)
      /\ \A u \in RThreads \ {t} : rpc'[u] = rpc[u]
      /\ s = Without(QueueSeq(node), t)
      /\ \A i \in 1..Len(s) :
           /\ s[i] # locked_ => node'[s[i]].status \in {node[s[i]].status, 3}
           /\ StatusMask(node'[s[i]].status) = 3 =>
                \A j \in 1..(i - 1) : StatusMask(node'[s[j]].status) = 3
           /\ node'[s[i]].status = 1 =>
                \E j \in 1..(i - 1) : node'[s[j]].status % 2 = 0

C24_TaskGrantStep ==
  \A b \in RThreads :
    (~phased /\ rpc[b] \notin {"exclusive", "shared"}
       /\ rpc'[b] \in {"exclusive", "shared"}) =>
      /\ \A a \in RThreads : rpc[a] # "exclusive"
      /\ \A a \in RWaiting \ {b} :
           (ExclusiveWaiting(a) \/ rpc'[b] = "exclusive") =>
             /\ b \in RWaiting
             /\ IndexOf(arrived, b) < IndexOf(arrived, a)

C24_TaskNoOvertaking == [][C24_TaskGrantStep]_vars

\* TaskFairness: a shared request has been granted from the queue while an
\* exclusive request enqueued after it and a shared one behind that wait
C24_Witness ==
  /\ ~phased
  /\ SharedHolders # {}
  /\ Len(arrived) = 2
  /\ rpc[arrived[1]] \in {"lock", "try_lockwait"}
  /\ rpc[arrived[2]] \in {"lock_shared", "try_lockwait_shared"}
  /\ node[arrived[2]].status = 1

\* C25: reader/writer engine: between the calls the sentinel of unlock() is
\* not linked, every linked node other than locked_ is the request of a thread
\* blocked in an acquire call, and the request of every other thread is
\* unlinked; the list is well formed.
C25_NodeLifetime ==
  /\ WellFormed(node)
  /\ sentinel \notin Linked(node)
  /\ node[sentinel] = NoNode
  /\ \A n \in Linked(node) \ {queue_, locked_} : n \in RWaiting
  /\ \A t \in RThreads \ RWaiting :
       /\ node[t] = NoNode
       /\ \A n \in Linked(node) : node[n].next # t /\ node[n].prev # t

\* PhaseFairness: unlock() has walked the queue with its sentinel, marked the
\* shared request at the front and moved the exclusive one behind the sentinel,
\* and has returned
C25_Witness ==
  /\ phased
  /\ promoted = "unlock"
  /\ StatusSeq(node) = <<3, 0>>
  /\ RThreads \ RWaiting # {}

\* ---- the life of a request node
\* t's request is admitted: a shared request marked lockable, or an exclusive
\* request at the front of the queue
AdmittedIn(q, pc, t) ==
  \/ pc[t] \in {"lock_shared", "try_lockwait_shared"} /\ q[t].status = 3
  \/ pc[t] \in {"lock", "try_lockwait"} /\ q[queue_].next = t

GrantOf(pc) == IF pc \in {"lock", "try_lockwait"} THEN "exclusive" ELSE "shared"

\* C30: reader/writer engine: in every step a waiting request stays waiting,
\* is granted, or (timed calls only) is unlinked and its call returns false;
\* its status changes only from unmarked to marked; it is granted only when
\* admitted; once admitted it stays admitted until granted, so that a timed
\* call whose request is admitted never returns false.
C30_NodeStep ==
  \A t \in RThreads :
    t \in RWaiting =>
      /\ rpc'[t] \in {rpc[t], GrantOf(rpc[t]), "idle"}
      /\ rpc'[t] = rpc[t] =>
           /\ node'[t].status \in {node[t].status, 3}
           /\ node'[t].status % 2 = node[t].status % 2
      /\ rpc'[t] = GrantOf(rpc[t]) => AdmittedIn(node, rpc, t)
      /\ rpc'[t] = "idle" =>
           /\ rpc[t] \in {"try_lockwait", "try_lockwait_shared"}
           /\ ~AdmittedIn(node, rpc, t)
           /\ node'[t] = NoNode
      /\ AdmittedIn(node, rpc, t) =>
           \/ rpc'[t] = GrantOf(rpc[t])
           \/ rpc'[t] = rpc[t] /\ AdmittedIn(node', rpc', t)

C30_NodeLife == [][C30_NodeStep]_vars

\* a timed shared request is marked lockable and its thread has not run yet,
\* while a timed exclusive request waits behind it
C30_Witness ==
  \E t, u \in RThreads :
    /\ rpc[t] = "try_lockwait_shared"
    /\ node[t].status = 3
    /\ rpc[u] = "try_lockwait"
    /\ node[t].next = u

\* C22: recursive ticket lock: the lock has an owner exactly while ncount_ is
\* at least 1; the owner changes only in the step that takes ncount_ from 1 to
\* 0, which is also the only step that advances curr_, by one; every call
\* changes ncount_ by at most one; while ncount_ is at least 1 no other thread
\* becomes an owner and a try_lock() that returns true is the owner's.
C22_Owned ==
  /\ (ncount_ >= 1) <=> (owner_ # 0)
  /\ TOwners = IF owner_ = 0 THEN {} ELSE {owner_}

C22_DepthStep ==
  /\ ncount_' - ncount_ \in {-1, 0, 1}
  /\ (owner_ # 0 /\ owner_' # owner_) =>
       /\ ncount_ = 1 /\ ncount_' = 0
       /\ owner_' = 0
       /\ tpc'[owner_] = "idle"
  /\ curr_' # curr_ =>
       /\ curr_' = curr_ + 1
       /\ ncount_ = 1 /\ ncount_' = 0
  /\ ncount_ >= 1 =>
       /\ \A t \in Threads \ {owner_} : tpc'[t] # "owner"
       /\ tret' = "try_lock:true" => owner_' = owner_ /\ ncount_' = ncount_ + 1

C22_RecursiveOwnership == []C22_Owned /\ [][C22_DepthStep]_vars

\* the owner holds the lock twice, a thread waits in lock() and the try_lock()
\* of another thread has just returned false
C22_Witness ==
  /\ ncount_ = 2
  /\ tarrived # << >>
  /\ tret = "try_lock:false"

\* C23: recursive ticket lock: a lock() or try_lock() of the owner leaves the
\* owner where it is (it does not wait), adds one to ncount_ and changes
\* nothing else: next_, curr_, the requests and the order of the waiting
\* threads are as before; a waiting thread is granted only as the first of the
\* waiting threads.
C23_ReentryStep ==
  \A t \in Threads :
    /\ (owner_ = t /\ (recursive_lock(t) \/ recursive_try_lock(t))) =>
         /\ ncount_' = ncount_ + 1
         /\ UNCHANGED <<next_, curr_, tpc, request, twoken, tarrived, owner_>>
    /\ (tpc[t] = "lock" /\ tpc'[t] = "owner") => t = Head(tarrived)

C23_Reentry == [][C23_ReentryStep]_vars

\* the owner has acquired the lock again by try_lock() while two threads wait
C23_Witness ==
  /\ ncount_ >= 2
  /\ Len(tarrived) = 2
  /\ tret = "try_lock:true"

\* C26: yamc::barrier: whenever a phase completes, the arrival count expected
\* of the phase that starts is the constructor's count less the number of
\* threads that have called arrive_and_drop() so far, in whatever order the
\* participants arrived.
C26_PhaseStep ==
  phase_' # phase_ =>
    counter_' = NThreads - Cardinality(DOMAIN bdrops')

C26_DropLowersExpected == [][C26_PhaseStep]_vars

\* C27: yamc::counting_semaphore: counter_ is never negative, and with the
\* threads that are between acquire and release it adds up to the initial
\* value, so that these are never more than the initial value; a thread gets
\* past an acquire call only in a step that finds counter_ positive and takes
\* one from it, and a call that returns false leaves counter_ as it is.
C27_Counter ==
  /\ sem.counter_ >= 0
  /\ sem.counter_ + Cardinality(SAcquired) = sem.desired
  /\ Cardinality(SAcquired) <= sem.desired

C27_AcquireStep ==
  /\ \A t \in Threads :
       (spc[t] # "acquired" /\ spc'[t] = "acquired") =>
         /\ sem.counter_ > 0
         /\ sem'.counter_ = sem.counter_ - 1
         /\ sret' \in {"acquire", "try_acquire:true", "try_acquire_for:true"}
  /\ sret' \in {"acquire", "try_acquire:true", "try_acquire_for:true"} =>
       Cardinality(SAcquired') = Cardinality(SAcquired) + 1
  /\ sret' \in {"try_acquire:false", "try_acquire_for:false"} =>
       /\ sem' = sem
       /\ sem.counter_ = 0
       /\ SAcquired' = SAcquired

C27_Semaphore == []C27_Counter /\ [][C27_AcquireStep]_vars

\* a semaphore constructed with 1 is taken, a thread waits in acquire() and a
\* try_acquire() has just returned false
C27_Witness ==
  /\ sem.desired = 1
  /\ Cardinality(SAcquired) = 1
  /\ \E t \in Threads : spc[t] = "acquire"
  /\ sret = "try_acquire:false"

\* C28: yamc::checked::mutex: a lock() or try_lock() of the owner and an
\* unlock() of a thread that is not the owner (the mutex owned by another
\* thread or by none) raise an error and change neither the owners, nor the
\* validator's table, nor any thread's position; the unlock() of the owner
\* raises none and releases the mutex.
C28_MisuseStep ==
  \A t \in Threads, m \in Mutexes :
    /\ (checked_lock(t, m) /\ mutexes[m].owner_ = t) =>
         /\ cerr' = Error("recursive lock", t, m)
         /\ UNCHANGED <<mutexes, mutexmap, cpc, cwoken>>
    /\ (checked_try_lock(t, m) /\ mutexes[m].owner_ = t) =>
         /\ cerr' = Error("recursive try_lock", t, m)
         /\ UNCHANGED <<mutexes, mutexmap, cpc, cwoken>>
    /\ (checked_unlock(t, m) /\ mutexes[m].owner_ # t) =>
         /\ cerr' = Error("invalid unlock", t, m)
         /\ UNCHANGED <<mutexes, mutexmap, cpc, cwoken>>
    /\ (checked_unlock(t, m) /\ mutexes[m].owner_ = t) =>
         /\ cerr' = NoError
         /\ mutexes'[m].owner_ = 0

C28_MisuseDetected == [][C28_MisuseStep]_vars

\* an unlock() of a thread that is not the owner has just failed on a mutex
\* that another thread owns and a third one waits for
C28_Witness ==
  /\ cerr.what = "invalid unlock"
  /\ mutexes[cerr.mkey].owner_ \notin {0, cerr.tid}
  /\ \E u \in Threads : cpc[u] = cerr.mkey

\* ---- the wait-for graph of the threads
\* from thread o there is a chain to thread t: each thread of it waits in
\* lock() for a mutex that the next one owns
RECURSIVE WaitsFor(_, _, _)
WaitsFor(o, t, fuel) ==
  /\ o # 0
  /\ \/ o = t
     \/ /\ fuel > 0
        /\ cpc[o] # 0
        /\ WaitsFor(mutexes[cpc[o]].owner_, t, fuel - 1)

\* t blocking in lock() of m would close a cycle
ClosesCycle(t, m) == WaitsFor(mutexes[m].owner_, t, NThreads)

\* C29: yamc::checked::mutex: a round of lock() that finds the mutex owned by
\* another thread reports a deadlock if and only if the thread, were it to
\* block, would close a cycle in the wait-for graph of the threads that own and
\* wait.
C29_DetectStep ==
  \A t \in Threads, m \in Mutexes :
    ((checked_lock(t, m) \/ (cpc[t] = m /\ checked_lock_recheck(t)))
       /\ mutexes[m].owner_ \notin {0, t}) =>
      (cerr'.what = "deadlock" <=> ClosesCycle(t, m))

C29_DeadlockDetection == [][C29_DetectStep]_vars

\* ---- the assertions of the reader/writer engine
\* wq_push_locknode(mode) on queue q:
\*   assert((locked_.status & node_status_mask) == (mode | 2))
\* after locked_ has been initialised and pushed when it was not at the front
AssertPushLocknode(q, mode) ==
  q[queue_].next = locked_ => StatusMask(q[locked_].status) = Or2(mode)

\* impl_unlock() and its wq_pop_locknode():
\*   assert(queue_.next == &locked_ && (locked_.status & node_status_mask) == 2)
AssertUnlock(q) ==
  q[queue_].next = locked_ /\ StatusMask(q[locked_].status) = 2

\* impl_unlock_shared():
\*   assert(queue_.next == &locked_);
\*   assert((locked_.status & node_status_mask) == 3
\*          && locked_.status >= node_nthread_inc)
AssertUnlockShared(q) ==
  /\ q[queue_].next = locked_
  /\ StatusMask(q[locked_].status) = 3
  /\ q[locked_].status >= node_nthread_inc

\* the PhaseFairness loop of impl_unlock() on queue q, locked_ popped:
\*   assert((p->status & node_status_mask) == 1) for every node that is not an
\*   exclusive request
AssertPhaseLoop(q) ==
  (~wq_empty(q) /\ StatusMask(q[q[queue_].next].status) = 1) =>
    \A i \in 1..Len(QueueSeq(q)) : StatusMask(StatusSeq(q)[i]) \in {0, 1}

\* C31: reader/writer engine, either policy, with timeouts: in every reachable
\* state the assertion of every call that a thread may make or resume next
\* holds: of unlock() for a thread that holds exclusively, of unlock_shared()
\* for a thread that holds shared, of wq_push_locknode() for a thread that is
\* admitted at once or whose request is admitted, and of the PhaseFairness
\* loop; and no step changes the mode of locked_ while it keeps a positive
\* count.
C31_Assertions ==
  /\ \A t \in RThreads :
       /\ rpc[t] = "exclusive" =>
            /\ AssertUnlock(node)
            /\ phased => AssertPhaseLoop(wq_pop_locknode(node))
       /\ rpc[t] = "shared" => AssertUnlockShared(node)
       /\ rpc[t] = "idle" =>
            /\ ~exclusive_must_wait(node) => AssertPushLocknode(node, 0)
            /\ ~shared_must_wait(node) => AssertPushLocknode(node, 1)
       /\ (ExclusiveWaiting(t) /\ exclusive_at_front(node, t)) =>
            AssertPushLocknode(wq_erase(node, t), 0)
       /\ (SharedWaiting(t) /\ node[t].status = 3) =>
            AssertPushLocknode(wq_erase(node, t), 1)

C31_ModeStep ==
  (HolderCount(node) > 0 /\ HolderCount(node') > 0) =>
    StatusMask(node'[locked_].status) = StatusMask(node[locked_].status)

C31_NoAssertFails == []C31_Assertions /\ [][C31_ModeStep]_vars

\* a thread holds the lock shared and a shared request that is marked
\* lockable is about to fold into locked_
C31_Witness ==
  /\ \E t \in RThreads : rpc[t] = "shared"
  /\ \E u \in RThreads : SharedWaiting(u) /\ node[u].status = 3
  /\ node[queue_].next = locked_

\* ---- the shape of the queue
\* locked_ is linked into the queue
LockedLinked == locked_ \in Linked(node)

\* the request nodes of the queue that are marked lockable
Marked == {n \in Linked(node) \ {queue_, locked_} : StatusMask(node[n].status) = 3}

\* C32, as stated: in every state between two operations in which locked_ is
\* linked, no other node of the queue is marked lockable.
C32_NoMarkedBesideHolder == LockedLinked => Marked = {}

\* C32, amended: in every state between two operations in which locked_ is
\* linked in exclusive mode, no other node of the queue is marked lockable;
\* beside locked_ in shared mode the marked nodes are shared requests of
\* threads that are still blocked and have not run since they were marked.
C32_MarkedBesideHolder ==
  LockedLinked =>
    /\ StatusMask(node[locked_].status) = 2 => Marked = {}
    /\ \A n \in Marked :
         /\ StatusMask(node[locked_].status) = 3
         /\ node[n].status = 3
         /\ n \in RWaiting /\ SharedWaiting(n)

\* a thread holds the lock shared, locked_ is linked, and behind it a shared
\* request is marked lockable and not yet folded
C32_Witness ==
  /\ LockedLinked
  /\ Marked # {}
  /\ SharedHolders # {}

\* C33: reader/writer engine: locked_ is linked exactly when some thread holds
\* the lock; when linked it is the first node of the queue, its count is the
\* number of threads that hold the lock, exactly 1 in exclusive mode and at
\* least 1 in shared mode, and its mode is that of the holders.
C33_HolderNode ==
  /\ LockedLinked <=> Holders # {}
  /\ LockedLinked =>
       /\ node[queue_].next = locked_
       /\ HolderCount(node) = Cardinality(Holders)
       /\ StatusMask(node[locked_].status) \in {2, 3}
       /\ StatusMask(node[locked_].status) = 2 =>
            /\ HolderCount(node) = 1
            /\ \A t \in Holders : rpc[t] = "exclusive"
       /\ StatusMask(node[locked_].status) = 3 =>
            /\ HolderCount(node) >= 1
            /\ \A t \in Holders : rpc[t] = "shared"

\* two threads hold the lock shared while an exclusive request waits behind
\* locked_
C33_Witness ==
  /\ Cardinality(SharedHolders) = 2
  /\ Len(QueueSeq(node)) = 2
  /\ StatusSeq(node)[2] = 0

\* C34: reader/writer engine: no shared request that is not marked lockable is
\* the first node of the queue or directly follows locked_ in shared mode or a
\* marked shared request; and when an unlock_shared() removes locked_ and
\* leaves a queue, its first node is an exclusive request or a marked shared
\* request.
C34_NoWaitingSharedAtShared ==
  \A i \in 1..Len(QueueSeq(node)) :
    StatusMask(StatusSeq(node)[i]) = 1 =>
      /\ i > 1
      /\ StatusMask(StatusSeq(node)[i - 1]) # 3

C34_UnlockSharedStep ==
  \A t \in RThreads :
    (impl_unlock_shared(t) /\ ~wq_empty(node') /\ node'[queue_].next # locked_) =>
      node'[node'[queue_].next].status \in {0, 3}

C34_NoPassOnUnlockShared ==
  []C34_NoWaitingSharedAtShared /\ [][C34_UnlockSharedStep]_vars

\* the last shared holder has just released and an exclusive request is now
\* the first node, with a shared request waiting behind it
C34_Witness ==
  /\ Holders = {}
  /\ StatusSeq(node) = <<0, 1>>
  /\ rwoken = RWaiting

\* C38: reader/writer engine, both policies, with timeouts: the nodes with the
\* lockable bits set (locked_ in shared mode and the marked shared requests)
\* are the first nodes of the queue, none of them behind a waiting node; and
\* behind locked_ in exclusive mode no node is marked.
C38_QueueShape ==
  /\ \A i \in 1..Len(QueueSeq(node)) :
       StatusMask(StatusSeq(node)[i]) = 3 =>
         \A j \in 1..(i - 1) : StatusMask(StatusSeq(node)[j]) = 3
  /\ \A i \in 2..Len(QueueSeq(node)) :
       StatusMask(StatusSeq(node)[i]) \in {0, 1, 3}
  /\ (LockedLinked /\ StatusMask(node[locked_].status) = 2) =>
       \A i \in 2..Len(QueueSeq(node)) : StatusMask(StatusSeq(node)[i]) \in {0, 1}

\* two marked shared requests at the front of the queue, not yet folded
C38_Witness ==
  /\ ~LockedLinked
  /\ StatusSeq(node) = <<3, 3>>

\* C35: fair::recursive_mutex and fair::recursive_timed_mutex: every step in
\* which a thread that is not the owner gets past lock(), try_lock() or
\* try_lock_for/until() starts with ncount_ = 0 and no owner, and in every
\* state an owner is set exactly when ncount_ > 0.
C35_AdmissionStep ==
  \A t \in Threads :
    (tpc[t] # "owner" /\ tpc'[t] = "owner") =>
      /\ ncount_ = 0
      /\ owner_ = 0

C35_Owner == (ncount_ > 0) <=> (owner_ # 0)

C35_AdmittedUnowned == []C35_Owner /\ [][C35_AdmissionStep]_vars

\* C36: a blocked thread whose wait returns (notified or spuriously, not by
\* timeout) while it is not admitted -- its ticket differs from curr_, its
\* exclusive node is not queue_.next, or its shared node's status is not 3 --
\* leaves the lock state as it was and is blocked in the same call afterwards.
\* This holds for the ticket lock and for the reader/writer engine.
TicketState == <<next_, curr_, tpc, request, tarrived, ncount_, owner_>>

RwState == <<phased, node, rpc, arrived, wturns>>

C36_TicketWakeStep ==
  \A t \in DOMAIN tpc :
    /\ (request[t] # curr_ /\ (mutex_lock_wake(t) \/ mutex_lock_spurious(t)))
         => UNCHANGED <<TicketState, RwState>> /\ tpc'[t] = "lock"
    /\ (request[t] # curr_ /\ (timed_mutex_wake(t) \/ timed_mutex_spurious(t)))
         => UNCHANGED <<TicketState, RwState>> /\ tpc'[t] = "try_lockwait"

C36_RwWakeStep ==
  \A t \in RThreads :
    /\ (node[queue_].next # t /\ (impl_lock_wake(t) \/ impl_lock_spurious(t)))
         => UNCHANGED <<TicketState, RwState>> /\ rpc'[t] = "lock"
    /\ (node[queue_].next # t
          /\ (impl_try_lockwait_wake(t) \/ impl_try_lockwait_spurious(t)))
         => UNCHANGED <<TicketState, RwState>> /\ rpc'[t] = "try_lockwait"
    /\ (rpc[t] = "lock_shared" /\ node[t].status # 3
          /\ (impl_lock_shared_wake(t) \/ impl_lock_shared_spurious(t)))
         => UNCHANGED <<TicketState, RwState>> /\ rpc'[t] = "lock_shared"
    /\ (rpc[t] = "try_lockwait_shared" /\ node[t].status # 3
          /\ (impl_try_lockwait_shared_wake(t)
                \/ impl_try_lockwait_shared_spurious(t)))
         => UNCHANGED <<TicketState, RwState>> /\ rpc'[t] = "try_lockwait_shared"

C36_SpuriousWakeHarmless == [][C36_TicketWakeStep /\ C36_RwWakeStep]_vars

\* a broadcast is still pending for the waiter u, and the waiter t, blocked in
\* lock() and not at the queue front, has no wake-up pending: it has run its
\* loop test and is blocked again
C36_Witness ==
  \E t, u \in RThreads :
    /\ rpc[t] = "lock"
    /\ node[queue_].next # t
    /\ t \notin rwoken
    /\ u \in rwoken
    /\ rpc[u] \in {"lock_shared", "try_lockwait_shared"}
    /\ node[u].status # 3

\* C37, as stated: a thread blocked in exclusive lock() whose wait returns
\* proceeds exactly when its request node is no longer linked in the queue.
C37_ExclusiveWake(t) == impl_lock_wake(t) \/ impl_lock_spurious(t)

C37_ProceedsWhenUnlinked ==
  [][\A t \in RThreads :
       (rpc[t] = "lock" /\ C37_ExclusiveWake(t))
         => ((rpc'[t] = "exclusive") <=> (t \notin Linked(node)))]_vars

\* C37, amended: while a thread is blocked in exclusive lock() its request
\* node stays linked; no other thread unlinks it.  The node becomes the front
\* of the queue by the step of another thread that releases the lock or gives
\* up a timed request.  When the wait returns the thread proceeds exactly
\* when queue_.next is its node, and it unlinks the node itself.
C37_LinkedWhileBlocked ==
  \A t \in RThreads : rpc[t] = "lock" => t \in Linked(node)

C37_AdmissionStep ==
  \A t \in RThreads :
    /\ (rpc[t] = "lock" /\ C37_ExclusiveWake(t))
         => /\ (rpc'[t] = "exclusive") <=> (node[queue_].next = t)
            /\ (rpc'[t] = "exclusive") => (t \notin Linked(node'))
    /\ (rpc[t] = "lock" /\ rpc'[t] = "lock"
          /\ node[queue_].next # t /\ node'[queue_].next = t)
         => \E u \in RThreads \ {t} :
              /\ rpc[u] \in {"exclusive", "shared", "try_lockwait",
                             "try_lockwait_shared"}
              /\ rpc'[u] = "idle"
    /\ (rpc[t] = "lock" /\ rpc'[t] # "lock") => C37_ExclusiveWake(t)

C37_FrontAdmits == []C37_LinkedWhileBlocked /\ [][C37_AdmissionStep]_vars

\* the releasing thread has popped locked_, and the request node of a thread
\* blocked in lock() is the front of the queue, still linked: the thread
\* proceeds at its next wake-up
C37_Witness ==
  \E t \in RThreads :
    /\ rpc[t] = "lock"
    /\ node[queue_].next = t
    /\ t \in rwoken
    /\ promoted = "unlock"

\* C40: with next_ and curr_ taken modulo 2^TicketWidth and fewer threads
\* than 2^TicketWidth, fair::mutex has at most one owner, the tickets
\* outstanding (next_ - curr_ modulo 2^w) count the owner and the waiters,
\* a blocked lock() is granted to the thread that arrived first, and
\* try_lock() returns true exactly when next_ = curr_, which is exactly when
\* the lock has neither owner nor waiter -- also after the counters wrapped.
C40_Outstanding == {t \in Threads : tpc[t] \in {"owner", "lock"}}

C40_State ==
  /\ Cardinality(TOwners) <= 1
  /\ wrap(next_ - curr_) = Cardinality(C40_Outstanding)
  /\ (next_ = curr_) <=> (C40_Outstanding = {})

C40_Step ==
  \A t \in Threads :
    /\ (tpc[t] = "lock" /\ tpc'[t] = "owner") => t = Head(tarrived)
    /\ mutex_try_lock_wrap(t) =>
         /\ (tret' = "try_lock:true") <=> (next_ = curr_)
         /\ (tret' = "try_lock:true") <=> (tpc'[t] = "owner")

\* fewer than 2^w tickets can be outstanding: each thread has at most one
C40_Fits == NThreads < TicketModulus

C40_WrapAround ==
  [](C40_Fits => C40_State) /\ [][C40_Fits => C40_Step]_vars

\* next_ has wrapped and curr_ has not yet: the owner's ticket is the largest
\* value, a waiter holds ticket 0
C40_Witness ==
  /\ next_ < curr_
  /\ curr_ = TicketModulus - 1
  /\ \E t, u \in Threads :
       /\ tpc[t] = "owner"
       /\ tpc[u] = "lock"
       /\ request[u] = 0

\* C39: a fair::mutex and a reader/writer lock of either policy that receive
\* the same lock(), try_lock() and unlock() calls: every try_lock() returns
\* the same result on both, a thread is past lock() on one only if it is past
\* lock() or next to be granted on the other, and the blocked threads stand in
\* the same order (by ticket, by queue position) on both.
C39_Position(t) == IndexOf(QueueSeq(node), t)

C39_SameOrder ==
  /\ Cardinality(TOwners) <= 1
  /\ Cardinality({t \in Threads : rpc[t] = "exclusive"}) <= 1
  /\ \A t \in Threads :
       /\ (tpc[t] = "idle") <=> (rpc[t] = "idle")
       /\ (tpc[t] = "lock" /\ rpc[t] = "lock")
            => ((request[t] = curr_) <=> (node[queue_].next = t))
       /\ (tpc[t] = "owner" /\ rpc[t] = "lock") => node[queue_].next = t
       /\ (tpc[t] = "lock" /\ rpc[t] = "exclusive") => request[t] = curr_
  /\ \A t, u \in Threads :
       (tpc[t] = "lock" /\ tpc[u] = "lock" /\ rpc[t] = "lock" /\ rpc[u] = "lock")
         => ((request[t] < request[u]) <=> (C39_Position(t) < C39_Position(u)))

C39_SameResult ==
  \A t \in Threads :
    /\ pair_try_lock(t) =>
         ((tret' = "try_lock:true") <=> (rret' = "try_lock:true"))
    /\ pair_lock(t) => ((tpc'[t] = "owner") <=> (rpc'[t] = "exclusive"))
    /\ (tpc[t] = "lock" /\ tpc'[t] = "owner")
         => (rpc[t] = "exclusive" \/ node[queue_].next = t)
    /\ (rpc[t] = "lock" /\ rpc'[t] = "exclusive")
         => (tpc[t] = "owner" \/ request[t] = curr_)

C39_Equivalent == []C39_SameOrder /\ [][C39_SameResult]_vars

\* the ticket lock has granted the blocked lock() of t, the reader/writer lock
\* has t's request at the front and has not granted it yet; u is blocked on
\* both, and a try_lock() has just failed on both
C39_Witness ==
  \E t, u \in Threads :
    /\ tpc[t] = "owner" /\ rpc[t] = "lock"
    /\ tpc[u] = "lock" /\ rpc[u] = "lock"
    /\ tret = "try_lock:false" /\ rret = "try_lock:false"

====
